---- MODULE Spec2Model ----
(***************************************************************************)
(* A model of the core of paper_scraper: the retrying invoker              *)
(* (utils.retry_with_backoff), the identity deduplicator                   *)
(* (paper.deduplicate_papers), the CSV export (utils.to_csv) and the       *)
(* pipeline run (scraper.Scraper.scrape).                                  *)
(*                                                                         *)
(* Python strings are modelled as tuples of one-character strings, so that *)
(* substring search, case folding, splitting and ordering are computed and *)
(* not assumed.  Python's None is the tuple NoneVal, which is no string.   *)
(***************************************************************************)
EXTENDS Integers, Sequences, FiniteSets, TLC

\* ------------------------------------------------------------------------
\* Python str operations
\* ------------------------------------------------------------------------

\* Python's None.  A one-element tuple holding a long token: never equal to a
\* tuple of one-character strings.
NoneVal == <<"None">>

\* ord(c) for the characters the model uses (ASCII).
Ord ==
    ("\t" :> 9) @@ ("\n" :> 10) @@ ("\r" :> 13) @@ (" " :> 32) @@ ("&" :> 38) @@ ("(" :> 40) @@
    (")" :> 41) @@ ("-" :> 45) @@ ("." :> 46) @@ ("/" :> 47) @@ ("0" :> 48) @@ ("1" :> 49) @@
    ("2" :> 50) @@ ("3" :> 51) @@ ("4" :> 52) @@ ("5" :> 53) @@ ("6" :> 54) @@ ("7" :> 55) @@
    ("8" :> 56) @@ ("9" :> 57) @@ (":" :> 58) @@ ("=" :> 61) @@ ("?" :> 63) @@ ("A" :> 65) @@
    ("B" :> 66) @@ ("C" :> 67) @@ ("D" :> 68) @@ ("E" :> 69) @@ ("F" :> 70) @@ ("G" :> 71) @@
    ("H" :> 72) @@ ("I" :> 73) @@ ("J" :> 74) @@ ("K" :> 75) @@ ("L" :> 76) @@ ("M" :> 77) @@
    ("N" :> 78) @@ ("O" :> 79) @@ ("P" :> 80) @@ ("Q" :> 81) @@ ("R" :> 82) @@ ("S" :> 83) @@
    ("T" :> 84) @@ ("U" :> 85) @@ ("V" :> 86) @@ ("W" :> 87) @@ ("X" :> 88) @@ ("Y" :> 89) @@
    ("Z" :> 90) @@ ("_" :> 95) @@ ("a" :> 97) @@ ("b" :> 98) @@ ("c" :> 99) @@ ("d" :> 100) @@
    ("e" :> 101) @@ ("f" :> 102) @@ ("g" :> 103) @@ ("h" :> 104) @@ ("i" :> 105) @@ ("j" :> 106) @@
    ("k" :> 107) @@ ("l" :> 108) @@ ("m" :> 109) @@ ("n" :> 110) @@ ("o" :> 111) @@ ("p" :> 112) @@
    ("q" :> 113) @@ ("r" :> 114) @@ ("s" :> 115) @@ ("t" :> 116) @@ ("u" :> 117) @@ ("v" :> 118) @@
    ("w" :> 119) @@ ("x" :> 120) @@ ("y" :> 121) @@ ("z" :> 122) @@ ("|" :> 124)

UpperChars == <<"A", "B", "C", "D", "E", "F", "G", "H", "I", "J", "K", "L", "M", "N", "O", "P", "Q", "R", "S", "T", "U", "V", "W", "X", "Y", "Z">>

LowerChars == <<"a", "b", "c", "d", "e", "f", "g", "h", "i", "j", "k", "l", "m", "n", "o", "p", "q", "r", "s", "t", "u", "v", "w", "x", "y", "z">>

\* The characters str.strip() removes.
Whitespace == {" ", "\t", "\n", "\r"}

Min(a, b) == IF a <= b THEN a ELSE b

\* c.lower() of one character
LowerChar(c) ==
    IF \E i \in 1..Len(UpperChars) : UpperChars[i] = c
    THEN LowerChars[CHOOSE i \in 1..Len(UpperChars) : UpperChars[i] = c]
    ELSE c

\* s.lower()
Lower(s) == [i \in 1..Len(s) |-> LowerChar(s[i])]

\* sub occurs in s at position i
MatchAt(s, sub, i) ==
    /\ i >= 1
    /\ i + Len(sub) - 1 <= Len(s)
    /\ \A j \in 1..Len(sub) : s[i + j - 1] = sub[j]

\* sub in s
Contains(s, sub) == \E i \in 1..(Len(s) - Len(sub) + 1) : MatchAt(s, sub, i)

\* s.find(sub) + 1: the position of the first occurrence, 0 when there is none
Find(s, sub) ==
    IF Contains(s, sub)
    THEN CHOOSE i \in 1..(Len(s) - Len(sub) + 1) :
            /\ MatchAt(s, sub, i)
            /\ \A k \in 1..(i - 1) : ~MatchAt(s, sub, k)
    ELSE 0

\* s.rfind(sub) + 1: the position of the last occurrence, 0 when there is none
RFind(s, sub) ==
    IF Contains(s, sub)
    THEN CHOOSE i \in 1..(Len(s) - Len(sub) + 1) :
            /\ MatchAt(s, sub, i)
            /\ \A k \in (i + 1)..(Len(s) - Len(sub) + 1) : ~MatchAt(s, sub, k)
    ELSE 0

\* s.split(sep)[-1]: what follows the last occurrence of sep (s when none)
SplitLast(s, sep) ==
    IF RFind(s, sep) = 0 THEN s
    ELSE SubSeq(s, RFind(s, sep) + Len(sep), Len(s))

\* s.split(sep)[0]: what precedes the first occurrence of sep (s when none)
SplitFirst(s, sep) ==
    IF Find(s, sep) = 0 THEN s
    ELSE SubSeq(s, 1, Find(s, sep) - 1)

\* s.replace(old, new) for a non-empty old: every occurrence, left to right
RECURSIVE Replace(_, _, _)
Replace(s, old, new) ==
    IF Find(s, old) = 0 THEN s
    ELSE SubSeq(s, 1, Find(s, old) - 1) \o new
         \o Replace(SubSeq(s, Find(s, old) + Len(old), Len(s)), old, new)

\* s.lstrip()
RECURSIVE LStrip(_)
LStrip(s) == IF s # <<>> /\ Head(s) \in Whitespace THEN LStrip(Tail(s)) ELSE s

\* s.rstrip()
RECURSIVE RStrip(_)
RStrip(s) ==
    IF s # <<>> /\ s[Len(s)] \in Whitespace
    THEN RStrip(SubSeq(s, 1, Len(s) - 1))
    ELSE s

\* s.strip()
Strip(s) == RStrip(LStrip(s))

\* a < b for Python strings: lexicographic by code point
RECURSIVE StrLess(_, _)
StrLess(a, b) ==
    IF b = <<>> THEN FALSE
    ELSE IF a = <<>> THEN TRUE
    ELSE IF Head(a) # Head(b) THEN Ord[Head(a)] < Ord[Head(b)]
    ELSE StrLess(Tail(a), Tail(b))

\* str(n) for a natural number
DigitChars == <<"0", "1", "2", "3", "4", "5", "6", "7", "8", "9">>

RECURSIVE IntToStr(_)
IntToStr(n) ==
    IF n < 10 THEN <<DigitChars[n + 1]>>
    ELSE IntToStr(n \div 10) \o <<DigitChars[(n % 10) + 1]>>

\* ------------------------------------------------------------------------
\* Bounds of the model
\* ------------------------------------------------------------------------

\* retry_with_backoff is called with max_retries in 0..MaxRetries
MaxRetries == 3

\* deduplicate_papers is applied to sequences of at most MaxPapers records
MaxPapers == 3

\* papers_list of to_csv holds at most MaxRows rows
MaxRows == 2

\* at most MaxExports calls of to_csv are followed on one path
MaxExports == 2

\* client.get_all_notes returns at most MaxFetched notes for a venue
MaxFetched == 2

\* at most MaxScrapes runs of Scraper.scrape are followed
MaxScrapes == 1

\* the registry holds at most MaxMembers venue ids
MaxMembers == 3

\* a rule list holds at most MaxRules match rules
MaxRules == 2

\* a conference group holds at most MaxGroupVenues venues
MaxGroupVenues == 2

\* the registry on the server changes at most MaxChanges times during a call
MaxChanges == 1

\* a venue holds at most MaxVenuePapers papers
MaxVenuePapers == 2

\* ------------------------------------------------------------------------
\* State
\* ------------------------------------------------------------------------

VARIABLES
    \* retry_with_backoff.wrapper
    invoke_args,      \* [max_retries, initial_delay, max_delay, backoff_factor]
    invoke_pc,        \* "idle", "running", "returned" or "raised"
    delay,            \* the local delay
    attempt,          \* the loop variable of range(max_retries)
    last_exception,   \* the local last_exception: NoneVal or a message
    invoke_result,    \* what the wrapper returned (NoneVal or a value) or raised
    calls,            \* how often func was called in this invocation
    sleeps,           \* the arguments of time.sleep in this invocation, in order
    failures,         \* str(e) of every failed call of this invocation, in order
    returned_by_func, \* what the last successful call of func returned
    \* deduplicate_papers
    dedupe_input,     \* the argument papers
    dedupe_stage,     \* "input", "once" (applied) or "twice" (applied again)
    dedupe_once,      \* deduplicate_papers(papers)
    dedupe_twice,     \* deduplicate_papers(deduplicate_papers(papers))
    \* to_csv
    fpath,            \* the path exported to
    file,             \* what is at fpath: [exists, header, rows]
    prev_file,        \* what was at fpath before the last call of to_csv
    last_export,      \* the arguments of the last call of to_csv
    export_count,     \* the calls of to_csv so far
    \* Scraper.scrape
    scrape_count,     \* the runs so far
    raw_papers,       \* self.raw_papers
    scrape_result,    \* the list the last run returned
    scrape_registry,  \* what the registry fetch of the last run ended in
    scrape_venues,    \* what get_venues returned in the last run
    fetched_venues,   \* the venues whose papers the last run fetched
    \* get_venues
    venues_args,      \* the arguments and fetch outcomes of the call
    venues_stage,     \* "idle", "called" or "returned"
    venues_result,    \* what get_venues returned
    \* Extractor
    extract_paper,    \* the record passed to extract
    extract_config,   \* [fields, subfields, include_subfield] of the Extractor
    extract_stage,    \* "idle", "called" or "returned"
    extract_result,   \* the dict extract returned
    \* satisfies_any_filters
    filter_args,      \* [paper, keywords, filters] of the call
    filter_stage,     \* "idle", "called", "returned" or "raised"
    filter_result,    \* the triple satisfies_any_filters returned
    filter_calls,     \* indices of the rules whose predicate was called
    \* get_papers
    fetch_args,       \* grouped_venues of the call
    fetch_pc,         \* [stage, group, idx]: where the two loops stand
    fetch_events,     \* the get_all_notes calls and sleeps so far, in order
    fetch_papers,     \* papers of the running get_grouped_venue_papers
    fetch_all_papers, \* all_papers of get_papers
    \* get_venues, one registry fetch at a time
    resolve_args,     \* the arguments of the call
    resolve_remote,   \* the members of the group 'venues' on the server
    resolve_fetches,  \* what each client.get_group call ended in, in order
    resolve_pc,       \* [stage, idx]: where get_venues stands
    resolve_locals,   \* filtered_venues and expanded_venues
    resolve_result,   \* what get_venues returned
    \* two to_csv calls on one path
    conc_args,        \* papers_list of each call
    conc_pc,          \* per call: "called", "read" or "written"
    conc_read,        \* per call: the file as the call read it
    conc_events,      \* the reads and writes of the file so far, in order
    \* Scraper._apply_on_papers
    apply_args,       \* [keywords, filters, venue_papers] of the Scraper and call
    apply_stage,      \* "idle", "called", "returned" or "raised"
    apply_result,     \* the extracted papers of the venue, by position fetched
    apply_calls,      \* positions of the papers given to satisfies_any_filters
    apply_mutated     \* positions of the papers _add_metadata has written to

invokeVars == <<invoke_args, invoke_pc, delay, attempt, last_exception,
                invoke_result, calls, sleeps, failures, returned_by_func>>

dedupeVars == <<dedupe_input, dedupe_stage, dedupe_once, dedupe_twice>>

exportVars == <<fpath, file, prev_file, last_export, export_count>>

scrapeVars == <<scrape_count, raw_papers, scrape_result, scrape_registry,
                scrape_venues, fetched_venues>>

venueVars == <<venues_args, venues_stage, venues_result>>

extractVars == <<extract_paper, extract_config, extract_stage, extract_result>>

filterVars == <<filter_args, filter_stage, filter_result, filter_calls>>

fetchVars == <<fetch_args, fetch_pc, fetch_events, fetch_papers,
               fetch_all_papers>>

resolveVars == <<resolve_args, resolve_remote, resolve_fetches, resolve_pc,
                 resolve_locals, resolve_result>>

concVars == <<conc_args, conc_pc, conc_read, conc_events>>

applyVars == <<apply_args, apply_stage, apply_result, apply_calls,
               apply_mutated>>

restVars == <<filterVars, fetchVars, resolveVars, concVars, applyVars>>

vars == <<invokeVars, dedupeVars, exportVars, scrapeVars, venueVars, extractVars,
          restVars>>

\* ------------------------------------------------------------------------
\* utils.retry_with_backoff
\* ------------------------------------------------------------------------

\* str(e) of the exceptions the wrapped call raises
Msg429 == <<"4", "2", "9", " ", "T", "o", "o", " ", "M", "a", "n", "y", " ", "R", "e", "q", "u", "e", "s", "t", "s">>

MsgTooManyLower == <<"t", "o", "o", " ", "m", "a", "n", "y", " ", "r", "e", "q", "u", "e", "s", "t", "s">>

MsgRateLimitMixed == <<"R", "a", "t", "e", " ", "L", "i", "m", "i", "t", " ", "h", "i", "t">>

MsgTemporary == <<"T", "e", "m", "p", "o", "r", "a", "r", "y", " ", "e", "r", "r", "o", "r">>

MsgAlways == <<"A", "l", "w", "a", "y", "s", " ", "f", "a", "i", "l", "s">>

Messages == {Msg429, MsgTooManyLower, MsgRateLimitMixed, MsgTemporary, MsgAlways}

\* what the wrapped call returns when it succeeds
ValSuccess == <<"s", "u", "c", "c", "e", "s", "s">>

ReturnValues == {ValSuccess}

\* the decorator's arguments (delays in whole seconds)
InvokeArgs ==
    [max_retries : 0..MaxRetries, initial_delay : {1, 2, 5},
     max_delay : {3, 4}, backoff_factor : {1, 2, 3}]

\* is_rate_limit, as the wrapper computes it from str(e)
is_rate_limit(error_str) ==
    \/ Contains(error_str, <<"4", "2", "9">>)
    \/ Contains(error_str, <<"T", "o", "o", " ", "M", "a", "n", "y", " ", "R", "e", "q", "u", "e", "s", "t", "s">>)
    \/ Contains(Lower(error_str), <<"r", "a", "t", "e", " ", "l", "i", "m", "i", "t">>)

\* wait_time without the doubling of a rate-limit failure
wait_time_plain(d, rate_limited, m) == d

\* wait_time of a failed attempt that is not the last
wait_time(d, rate_limited, m) == IF rate_limited THEN Min(d * 2, m) ELSE d

\* the escalation without the cap
escalate_uncapped(d, f, m) == d * f

\* delay after a failed attempt that is not the last
escalate(d, f, m) == Min(d * f, m)

InvokeIdle ==
    /\ invoke_args = [max_retries |-> 0, initial_delay |-> 1,
                      max_delay |-> 3, backoff_factor |-> 1]
    /\ invoke_pc = "idle"
    /\ delay = 0
    /\ attempt = 0
    /\ last_exception = NoneVal
    /\ invoke_result = NoneVal
    /\ calls = 0
    /\ sleeps = <<>>
    /\ failures = <<>>
    /\ returned_by_func = NoneVal

\* wrapper is entered: delay = initial_delay, last_exception = None
InvokeStart(args) ==
    /\ invoke_pc # "running"
    /\ UNCHANGED <<dedupeVars, exportVars, scrapeVars, venueVars, extractVars, restVars>>
    /\ invoke_args' = args
    /\ invoke_pc' = "running"
    /\ delay' = args.initial_delay
    /\ attempt' = 0
    /\ last_exception' = NoneVal
    /\ invoke_result' = NoneVal
    /\ calls' = 0
    /\ sleeps' = <<>>
    /\ failures' = <<>>
    /\ returned_by_func' = NoneVal

\* one iteration of the loop in which func returns v
AttemptReturns(v) ==
    /\ invoke_pc = "running"
    /\ UNCHANGED <<dedupeVars, exportVars, scrapeVars, venueVars, extractVars, restVars>>
    /\ attempt < invoke_args.max_retries
    /\ calls' = calls + 1
    /\ returned_by_func' = v
    /\ invoke_result' = v
    /\ invoke_pc' = "returned"
    /\ UNCHANGED <<invoke_args, delay, attempt, last_exception, sleeps, failures>>

\* a failed attempt whose last failure is swallowed instead of raised
AttemptRaisesSwallowed(msg) ==
    /\ invoke_pc = "running"
    /\ UNCHANGED <<dedupeVars, exportVars, scrapeVars, venueVars, extractVars, restVars>>
    /\ attempt < invoke_args.max_retries
    /\ calls' = calls + 1
    /\ last_exception' = msg
    /\ failures' = Append(failures, msg)
    /\ IF attempt < invoke_args.max_retries - 1
       THEN /\ sleeps' = Append(sleeps, wait_time(delay, is_rate_limit(msg),
                                                  invoke_args.max_delay))
            /\ delay' = escalate(delay, invoke_args.backoff_factor,
                                 invoke_args.max_delay)
            /\ attempt' = attempt + 1
            /\ UNCHANGED <<invoke_pc, invoke_result>>
       ELSE /\ invoke_pc' = "returned"
            /\ invoke_result' = NoneVal
            /\ UNCHANGED <<sleeps, delay, attempt>>
    /\ UNCHANGED <<invoke_args, returned_by_func>>

\* one iteration of the loop in which func raises an exception e, str(e) = msg
AttemptRaises(msg) ==
    /\ invoke_pc = "running"
    /\ UNCHANGED <<dedupeVars, exportVars, scrapeVars, venueVars, extractVars, restVars>>
    /\ attempt < invoke_args.max_retries
    /\ calls' = calls + 1
    /\ last_exception' = msg
    /\ failures' = Append(failures, msg)
    /\ IF attempt < invoke_args.max_retries - 1
       THEN /\ sleeps' = Append(sleeps, wait_time(delay, is_rate_limit(msg),
                                                  invoke_args.max_delay))
            /\ delay' = escalate(delay, invoke_args.backoff_factor,
                                 invoke_args.max_delay)
            /\ attempt' = attempt + 1
            /\ UNCHANGED <<invoke_pc, invoke_result>>
       ELSE /\ invoke_pc' = "raised"
            /\ invoke_result' = msg
            /\ UNCHANGED <<sleeps, delay, attempt>>
    /\ UNCHANGED <<invoke_args, returned_by_func>>

\* the loop ends without a return or a raise: raise last_exception if there
\* is one, otherwise fall off the end of wrapper (return None)
LoopExhausted ==
    /\ invoke_pc = "running"
    /\ UNCHANGED <<dedupeVars, exportVars, scrapeVars, venueVars, extractVars, restVars>>
    /\ attempt >= invoke_args.max_retries
    /\ IF last_exception # NoneVal
       THEN invoke_pc' = "raised" /\ invoke_result' = last_exception
       ELSE invoke_pc' = "returned" /\ invoke_result' = NoneVal
    /\ UNCHANGED <<invoke_args, delay, attempt, last_exception, calls, sleeps,
                   failures, returned_by_func>>

\* ------------------------------------------------------------------------
\* paper.deduplicate_papers
\* ------------------------------------------------------------------------

StrA == <<"A">>

StrB == <<"B">>

StrP1 == <<"p", "1">>

StrP2 == <<"p", "2">>

StrEmpty == <<>>

\* A fetched record: an object with attributes (kind "note": an OpenReview
\* Note, or any object) or a dict (kind "dict").  has_forum says whether the
\* attribute, or the key, forum exists; forum is its value then.
NoteP1A == [kind |-> "note", has_forum |-> TRUE, forum |-> StrP1, title |-> StrA]

NoteP1B == [kind |-> "note", has_forum |-> TRUE, forum |-> StrP1, title |-> StrB]

NoteP2 == [kind |-> "note", has_forum |-> TRUE, forum |-> StrP2, title |-> StrB]

DictP1 == [kind |-> "dict", has_forum |-> TRUE, forum |-> StrP1, title |-> StrA]

DictNoForum == [kind |-> "dict", has_forum |-> FALSE, forum |-> NoneVal, title |-> StrA]

NoteForumNone == [kind |-> "note", has_forum |-> TRUE, forum |-> NoneVal, title |-> StrA]

NoteNoForum == [kind |-> "note", has_forum |-> FALSE, forum |-> NoneVal, title |-> StrB]

DictForumEmpty == [kind |-> "dict", has_forum |-> TRUE, forum |-> StrEmpty, title |-> StrA]

DedupePapers ==
    {NoteP1A, NoteP1B, NoteP2, DictP1, DictNoForum, NoteForumNone, NoteNoForum,
     DictForumEmpty}

\* the sequences over S of length at most n
SeqsUpTo(S, n) == UNION {[1..k -> S] : k \in 0..n}

\* bool(v) of None or a str
Truthy(v) == v # NoneVal /\ v # <<>>

\* forum_id of one paper: paper.forum if it has the attribute, else
\* paper.get('forum') if it is a dict, else None
get_forum_id(paper) ==
    IF paper.kind = "note" /\ paper.has_forum THEN paper.forum
    ELSE IF paper.kind = "dict"
         THEN (IF paper.has_forum THEN paper.forum ELSE NoneVal)
         ELSE NoneVal

\* the loop of deduplicate_papers that builds unique_papers back to front
RECURSIVE dedupe_loop_prepend(_, _, _)
dedupe_loop_prepend(rest, seen_forums, unique_papers) ==
    IF rest = <<>> THEN unique_papers
    ELSE LET paper == Head(rest)
             forum_id == get_forum_id(paper)
         IN  IF Truthy(forum_id) /\ forum_id \notin seen_forums
             THEN dedupe_loop_prepend(Tail(rest), seen_forums \cup {forum_id},
                                      <<paper>> \o unique_papers)
             ELSE IF forum_id = NoneVal
             THEN dedupe_loop_prepend(Tail(rest), seen_forums,
                                      <<paper>> \o unique_papers)
             ELSE dedupe_loop_prepend(Tail(rest), seen_forums, unique_papers)

\* the loop of deduplicate_papers without its elif branch
RECURSIVE dedupe_loop_no_elif(_, _, _)
dedupe_loop_no_elif(rest, seen_forums, unique_papers) ==
    IF rest = <<>> THEN unique_papers
    ELSE LET paper == Head(rest)
             forum_id == get_forum_id(paper)
         IN  IF Truthy(forum_id) /\ forum_id \notin seen_forums
             THEN dedupe_loop_no_elif(Tail(rest), seen_forums \cup {forum_id},
                                      Append(unique_papers, paper))
             ELSE dedupe_loop_no_elif(Tail(rest), seen_forums, unique_papers)

\* the loop of deduplicate_papers over the papers not yet visited
RECURSIVE dedupe_loop(_, _, _)
dedupe_loop(rest, seen_forums, unique_papers) ==
    IF rest = <<>> THEN unique_papers
    ELSE LET paper == Head(rest)
             forum_id == get_forum_id(paper)
         IN  IF Truthy(forum_id) /\ forum_id \notin seen_forums
             THEN dedupe_loop(Tail(rest), seen_forums \cup {forum_id},
                              Append(unique_papers, paper))
             ELSE IF forum_id = NoneVal
             THEN dedupe_loop(Tail(rest), seen_forums,
                              Append(unique_papers, paper))
             ELSE dedupe_loop(Tail(rest), seen_forums, unique_papers)

deduplicate_papers(papers) ==
    IF papers = <<>> THEN <<>> ELSE dedupe_loop(papers, {}, <<>>)

DedupeIdle ==
    /\ dedupe_input = <<>>
    /\ dedupe_stage = "input"
    /\ dedupe_once = <<>>
    /\ dedupe_twice = <<>>

\* any record sequence as the argument
DedupeInit ==
    /\ dedupe_input \in SeqsUpTo(DedupePapers, MaxPapers)
    /\ dedupe_stage = "input"
    /\ dedupe_once = <<>>
    /\ dedupe_twice = <<>>

\* deduplicate_papers(x)
Dedupe ==
    /\ dedupe_stage = "input"
    /\ dedupe_once' = deduplicate_papers(dedupe_input)
    /\ dedupe_stage' = "once"
    /\ UNCHANGED <<invokeVars, exportVars, scrapeVars, venueVars, extractVars, restVars>>
    /\ UNCHANGED <<dedupe_input, dedupe_twice>>

\* deduplicate_papers(deduplicate_papers(x))
DedupeAgain ==
    /\ dedupe_stage = "once"
    /\ dedupe_twice' = deduplicate_papers(dedupe_once)
    /\ dedupe_stage' = "twice"
    /\ UNCHANGED <<invokeVars, exportVars, scrapeVars, venueVars, extractVars, restVars>>
    /\ UNCHANGED <<dedupe_input, dedupe_once>>

\* ------------------------------------------------------------------------
\* utils.to_csv
\* ------------------------------------------------------------------------

DEFAULT_CSV_FIELDS ==
    <<"id", "title", "keywords", "abstract", "pdf", "forum", "year",
      "presentation_type">>

TEXT_FIELDS_TO_CLEAN == {"abstract", "title", "keywords"}

\* fields arguments other than the default
FieldsTitleYear == <<"title", "year">>

FieldsArgs == {DEFAULT_CSV_FIELDS, FieldsTitleYear}

\* the fpath argument
PathIclr == <<"o", "u", "t", "/", "I", "C", "L", "R", "_", "p", "a", "p", "e", "r", "s", ".", "c", "s", "v">>

PathData == <<"d", "a", "t", "a", ".", "c", "s", "v">>

PathTxt == <<"p", "a", "p", "e", "r", "s", ".", "t", "x", "t">>

PathNoSlug == <<"o", "u", "t", "/", "_", "p", "a", "p", "e", "r", "s", ".", "c", "s", "v">>

Paths == {PathIclr, PathData, PathTxt, PathNoSlug}

Str2024 == <<"2", "0", "2", "4">>

StrOral == <<"O", "r", "a", "l">>

StrSpotlight == <<"S", "p", "o", "t", "l", "i", "g", "h", "t">>

StrPoster == <<"P", "o", "s", "t", "e", "r">>

\* the rows of papers_list: dicts from field names to None or a str
RowUrlP1 ==
    [title |-> StrA, forum |-> <<"h", "t", "t", "p", ":", "/", "/", "x", "/", "f", "o", "r", "u", "m", "?", "i", "d", "=", "p", "1">>, year |-> Str2024]

RowP1Poster ==
    [title |-> <<"b">>, forum |-> StrP1, year |-> Str2024,
     presentation_type |-> StrPoster]

RowP2Oral ==
    [title |-> <<"C">>, forum |-> StrP2, year |-> Str2024,
     presentation_type |-> StrOral]

RowNoForum ==
    [title |-> StrA, forum |-> NoneVal, year |-> Str2024,
     presentation_type |-> <<"W", "o", "r", "k", "s", "h", "o", "p">>]

RowMessy ==
    [title |-> <<" ", "a", "\n", " ", "B">>, forum |-> <<"h", "t", "t", "p", "s", ":", "/", "/", "o", "p", "e", "n", "r", "e", "v", "i", "e", "w", ".", "n", "e", "t", "/", "p", "3">>, year |-> Str2024,
     presentation_type |-> StrSpotlight, abstract |-> <<"x", " ", " ", "\r", "\n", "y">>,
     keywords |-> <<"k", "\t", "\t", "w">>]

RowP4 == [title |-> StrA, forum |-> <<"p", "4">>, year |-> Str2024]

NewRows == {RowUrlP1, RowP1Poster, RowP2Oral, RowNoForum, RowMessy, RowP4}

\* the state of the file system at fpath when nothing is there
NoFile == [exists |-> FALSE, header |-> <<>>, rows |-> <<>>]

\* the elements of a sequence
Range(s) == {s[i] : i \in 1..Len(s)}

\* d.get(key, default)
Get(d, key, default) == IF key \in DOMAIN d THEN d[key] ELSE default

\* _clean_value of None or a str
clean_value(value) == IF value = NoneVal THEN <<>> ELSE value

\* the while loop of _clean_text_field
RECURSIVE collapse_spaces(_)
collapse_spaces(cleaned) ==
    IF Contains(cleaned, <<" ", " ">>)
    THEN collapse_spaces(Replace(cleaned, <<" ", " ">>, <<" ">>))
    ELSE cleaned

\* _clean_text_field of a str
clean_text_field(value) ==
    Strip(collapse_spaces(Replace(Replace(value, <<"\n">>, <<" ">>),
                                  <<"\r">>, <<" ">>)))

\* _extract_forum_id of a str: None, or the id
extract_forum_id(forum) ==
    IF Strip(forum) = <<>> THEN NoneVal
    ELSE IF Contains(forum, <<"f", "o", "r", "u", "m", "?", "i", "d", "=">>)
    THEN SplitFirst(SplitLast(forum, <<"f", "o", "r", "u", "m", "?", "i", "d", "=">>), <<"&">>)
    ELSE IF Contains(forum, <<"/">>) /\ Len(forum) > 20
    THEN SplitFirst(SplitLast(forum, <<"/">>), <<"?">>)
    ELSE Strip(forum)

\* conference_name of to_csv: None, or the name taken from the file name
conference_name(path) ==
    LET filename == SplitLast(path, <<"/">>)
    IN  IF Contains(filename, <<"_", "p", "a", "p", "e", "r", "s", ".", "c", "s", "v">>)
        THEN Lower(Replace(filename, <<"_", "p", "a", "p", "e", "r", "s", ".", "c", "s", "v">>, <<>>))
        ELSE IF Contains(filename, <<".", "c", "s", "v">>)
        THEN Lower(Replace(filename, <<".", "c", "s", "v">>, <<>>))
        ELSE NoneVal

\* list(csv.DictReader(fp)) of the file: one dict per row, keyed by the header
read_existing(f, append) == IF append /\ f.exists THEN f.rows ELSE <<>>

\* all_papers with the existing rows first
all_papers_existing_first(papers_list, existing_papers) ==
    existing_papers \o papers_list

\* all_papers: the new rows, then the existing ones
all_papers(papers_list, existing_papers) == papers_list \o existing_papers

\* cleaned_paper of one paper
cleaned_paper(paper) ==
    [key \in DOMAIN paper |->
        IF key \in TEXT_FIELDS_TO_CLEAN
        THEN clean_text_field(clean_value(paper[key]))
        ELSE clean_value(paper[key])]

\* unique_id of a cleaned paper
unique_id(cleaned) ==
    LET forum_id == extract_forum_id(Get(cleaned, "forum", <<>>))
    IN  IF Truthy(forum_id) THEN forum_id
        ELSE Strip(Get(cleaned, "title", <<>>)) \o <<"|">>
             \o Strip(Get(cleaned, "year", <<>>))

\* the deduplication loop of to_csv over the papers not yet visited
RECURSIVE unique_loop(_, _, _)
unique_loop(rest, seen_ids, unique_papers) ==
    IF rest = <<>> THEN unique_papers
    ELSE LET cleaned == cleaned_paper(Head(rest))
         IN  IF unique_id(cleaned) \notin seen_ids
             THEN unique_loop(Tail(rest), seen_ids \cup {unique_id(cleaned)},
                              Append(unique_papers, cleaned))
             ELSE unique_loop(Tail(rest), seen_ids, unique_papers)

\* presentation_priority.get(ptype, 3)
presentation_priority(ptype) ==
    IF ptype = StrOral THEN 0
    ELSE IF ptype = StrSpotlight THEN 1
    ELSE IF ptype = StrPoster THEN 2
    ELSE 3

\* sort_key(paper): <<priority, title.lower()>>
sort_key(paper) ==
    <<presentation_priority(Get(paper, "presentation_type", StrPoster)),
      Lower(Get(paper, "title", <<>>))>>

\* a < b for two sort keys
key_less(a, b) == a[1] < b[1] \/ (a[1] = b[1] /\ StrLess(a[2], b[2]))

\* list.sort is stable: a paper goes behind the papers whose key is not greater
RECURSIVE insert_sorted(_, _)
insert_sorted(sorted, paper) ==
    IF sorted = <<>> THEN <<paper>>
    ELSE IF key_less(sort_key(paper), sort_key(Head(sorted)))
    THEN <<paper>> \o sorted
    ELSE <<Head(sorted)>> \o insert_sorted(Tail(sorted), paper)

\* unique_papers.sort(key=sort_key)
RECURSIVE sort_papers(_)
sort_papers(unique_papers) ==
    IF unique_papers = <<>> THEN <<>>
    ELSE insert_sorted(sort_papers(SubSeq(unique_papers, 1, Len(unique_papers) - 1)),
                       unique_papers[Len(unique_papers)])

\* paper['id'] = conference_name + '_' + str(idx) for every paper
generate_ids_keep(sorted_papers, name) == sorted_papers

generate_ids(sorted_papers, name) ==
    IF Truthy(name)
    THEN [idx \in 1..Len(sorted_papers) |->
            [key \in DOMAIN sorted_papers[idx] \cup {"id"} |->
                IF key = "id" THEN name \o <<"_">> \o IntToStr(idx)
                ELSE sorted_papers[idx][key]]]
    ELSE sorted_papers

\* the file written: the header, then per paper the row
\* {field: paper.get(field, '')}, read back by csv.DictReader as it was written
write_csv(papers, fields) ==
    [exists |-> TRUE,
     header |-> fields,
     rows |-> [i \in 1..Len(papers) |->
                  [field \in Range(fields) |-> Get(papers[i], field, <<>>)]]]

\* to_csv(papers_list, fpath, fields, append) on a path that holds f: the file
\* it leaves
to_csv_merge_only(f, papers_list, path, fields, append) ==
    write_csv(
        generate_ids(
            sort_papers(
                unique_loop(all_papers(papers_list, read_existing(f, append)),
                            {}, <<>>)),
            conference_name(path)),
        fields)

to_csv(f, papers_list, path, fields, append) ==
    IF Len(papers_list) = 0
    THEN write_csv(<<>>, fields)
    ELSE write_csv(
            generate_ids(
                sort_papers(
                    unique_loop(all_papers(papers_list, read_existing(f, append)),
                                {}, <<>>)),
                conference_name(path)),
            fields)

ExportIdle ==
    /\ file = NoFile
    /\ prev_file = NoFile
    /\ export_count = 0
    /\ last_export = [papers_list |-> <<>>, fields |-> <<>>, append |-> TRUE]

\* to_csv(papers_list, fpath, fields, append)
Export(papers_list, fields, append) ==
    /\ export_count < MaxExports
    /\ file' = to_csv(file, papers_list, fpath, fields, append)
    /\ prev_file' = file
    /\ export_count' = export_count + 1
    /\ last_export' = [papers_list |-> papers_list, fields |-> fields,
                       append |-> append]
    /\ UNCHANGED <<fpath, invokeVars, dedupeVars, scrapeVars, venueVars, extractVars, restVars>>

\* ------------------------------------------------------------------------
\* venue.get_venues and its helpers
\* ------------------------------------------------------------------------

\* venue ids of the registry (the members of the group 'venues')
VenueConference == <<"I", "C", "L", "R", ".", "c", "c", "/", "2", "0", "2", "4", "/", "C", "o", "n", "f", "e", "r", "e", "n", "c", "e">>

VenueOral == <<"I", "C", "L", "R", ".", "c", "c", "/", "2", "0", "2", "4", "/", "C", "o", "n", "f", "e", "r", "e", "n", "c", "e", "/", "O", "r", "a", "l">>

VenueWorkshop == <<"I", "C", "L", "R", ".", "c", "c", "/", "2", "0", "2", "4", "/", "W", "o", "r", "k", "s", "h", "o", "p">>

VenueOld == <<"I", "C", "L", "R", ".", "c", "c", "/", "2", "0", "2", "3", "/", "C", "o", "n", "f", "e", "r", "e", "n", "c", "e">>

VenueTrackMain == <<"I", "C", "L", "R", ".", "c", "c", "/", "2", "0", "2", "4", "/", "T", "r", "a", "c", "k", "/", "M", "a", "i", "n">>

VenueDemoMain == <<"I", "C", "L", "R", ".", "c", "c", "/", "2", "0", "2", "4", "/", "D", "e", "m", "o", "_", "T", "r", "a", "c", "k", "/", "M", "a", "i", "n">>

VenueCompetition == <<"I", "C", "L", "R", ".", "c", "c", "/", "2", "0", "2", "4", "/", "C", "o", "m", "p", "e", "t", "i", "t", "i", "o", "n">>

VenueJoint == <<"m", "l", ".", "o", "r", "g", "/", "2", "0", "2", "4", "/", "C", "o", "n", "f", "e", "r", "e", "n", "c", "e", "_", "I", "C", "L", "R">>

VenuePosters == <<"m", "l", ".", "o", "r", "g", "/", "2", "0", "2", "4", "/", "P", "o", "s", "t", "e", "r", "s">>

VenueAuthors == <<"m", "l", ".", "o", "r", "g", "/", "2", "0", "2", "4", "/", "A", "u", "t", "h", "o", "r", "s">>

RegistryIds ==
    {VenueConference, VenueOral, VenueWorkshop, VenueOld, VenueTrackMain,
     VenueDemoMain, VenueCompetition, VenueJoint, VenuePosters, VenueAuthors}

\* the sequences over S of at most n elements, none repeated
DistinctSeqsUpTo(S, n) ==
    {s \in SeqsUpTo(S, n) : \A i, j \in 1..Len(s) : i # j => s[i] # s[j]}

\* what safe_api_call(client.get_group, id='venues') ends in: the members
\* of the group, or the exception raised after the retries
RegistryFailure == [ok |-> FALSE, members |-> <<>>]

RegistryOutcomes(S, n) ==
    [ok : {TRUE}, members : DistinctSeqsUpTo(S, n)] \cup {RegistryFailure}

StrIclrLower == <<"i", "c", "l", "r">>

Str2023 == <<"2", "0", "2", "3">>

\* the arguments years of get_venues
YearsArgs == {<<>>, <<Str2024>>, <<Str2023, Str2024>>}

\* x in a Python list
InList(x, list) == \E i \in 1..Len(list) : list[i] = x

\* s.startswith(prefix)
StartsWith(s, prefix) ==
    Len(s) >= Len(prefix) /\ SubSeq(s, 1, Len(prefix)) = prefix

\* filter_by_year(venue, years): the venue, or None
filter_by_year(venue, years) ==
    IF venue = NoneVal THEN NoneVal
    ELSE IF \E i \in 1..Len(years) : Contains(venue, years[i]) THEN venue
    ELSE NoneVal

filter_by_conference_exact(venue, conferences) ==
    /\ venue # NoneVal
    /\ \E i \in 1..Len(conferences) : Contains(venue, conferences[i])

\* filter_by_conference(venue, conferences)
filter_by_conference(venue, conferences) ==
    /\ venue # NoneVal
    /\ \E i \in 1..Len(conferences) :
          Contains(Lower(venue), Lower(conferences[i]))

\* 'workshop' in venue.lower()
is_workshop(venue) == Contains(Lower(venue), <<"w", "o", "r", "k", "s", "h", "o", "p">>)

\* exclude_patterns of get_all_subgroups
exclude_patterns ==
    <<<<"/", "-", "/">>,
      <<"/", "P", "r", "o", "g", "r", "a", "m", "_", "C", "h", "a", "i", "r", "s">>,
      <<"/", "A", "r", "e", "a", "_", "C", "h", "a", "i", "r", "s">>,
      <<"/", "R", "e", "v", "i", "e", "w", "e", "r", "s">>,
      <<"/", "A", "u", "t", "h", "o", "r", "s">>,
      <<"/", "E", "t", "h", "i", "c", "s", "_", "R", "e", "v", "i", "e", "w", "e", "r", "s">>,
      <<"/", "S", "e", "n", "i", "o", "r", "_", "A", "r", "e", "a", "_", "C", "h", "a", "i", "r", "s">>,
      <<"/", "A", "c", "t", "i", "o", "n", "_", "E", "d", "i", "t", "o", "r", "s">>>>

\* base_path of get_all_subgroups: '/'.join(parent_group_id.split('/')[:-1])
base_path(parent_group_id) ==
    IF RFind(parent_group_id, <<"/">>) = 0 THEN <<>>
    ELSE SubSeq(parent_group_id, 1, RFind(parent_group_id, <<"/">>) - 1)

is_subgroup_with_roles(venue, parent_group_id, years, exclude_workshops) ==
    /\ StartsWith(venue, base_path(parent_group_id) \o <<"/">>)
    /\ \E i \in 1..Len(years) : Contains(venue, years[i])
    /\ ~(exclude_workshops /\ is_workshop(venue))

\* the test of one member in the loop of get_all_subgroups
is_subgroup(venue, parent_group_id, years, exclude_workshops) ==
    /\ StartsWith(venue, base_path(parent_group_id) \o <<"/">>)
    /\ \E i \in 1..Len(years) : Contains(venue, years[i])
    /\ ~\E i \in 1..Len(exclude_patterns) : Contains(venue, exclude_patterns[i])
    /\ ~(exclude_workshops /\ is_workshop(venue))

\* the loop of get_all_subgroups over all_venues, all_groups so far
RECURSIVE subgroups_loop(_, _, _, _, _)
subgroups_loop(all_venues, all_groups, parent_group_id, years, exclude_workshops) ==
    IF all_venues = <<>> THEN all_groups
    ELSE LET venue == Head(all_venues)
         IN  subgroups_loop(
                Tail(all_venues),
                IF is_subgroup(venue, parent_group_id, years, exclude_workshops)
                   /\ ~InList(venue, all_groups)
                THEN Append(all_groups, venue) ELSE all_groups,
                parent_group_id, years, exclude_workshops)

\* get_all_subgroups(client, parent_group_id, years, exclude_workshops), its
\* fetch of the registry ending in fetched
get_all_subgroups(fetched, parent_group_id, years, exclude_workshops) ==
    subgroups_loop(IF fetched.ok THEN fetched.members ELSE <<>>,
                   <<parent_group_id>>, parent_group_id, years,
                   exclude_workshops)

\* no_expand_patterns of _should_expand_venue
no_expand_patterns ==
    <<<<"T", "r", "a", "c", "k">>, <<"D", "e", "m", "o">>, <<"W", "o", "r", "k", "s", "h", "o", "p">>, <<"I", "A", "A", "I">>, <<"T", "u", "t", "o", "r", "i", "a", "l">>>>

\* _should_expand_venue(venue)
should_expand_venue(venue) ==
    /\ Contains(venue, <<"/", "C", "o", "n", "f", "e", "r", "e", "n", "c", "e">>)
    /\ ~\E i \in 1..Len(no_expand_patterns) : Contains(venue, no_expand_patterns[i])

\* filtered_venues of get_venues
RECURSIVE filter_venues(_, _, _, _)
filter_venues(all_venues, conferences, years, exclude_workshops) ==
    IF all_venues = <<>> THEN <<>>
    ELSE LET venue == Head(all_venues)
         IN  (IF /\ filter_by_year(venue, years) # NoneVal
                 /\ filter_by_conference(venue, conferences)
                 /\ ~(exclude_workshops /\ is_workshop(venue))
              THEN <<venue>> ELSE <<>>)
             \o filter_venues(Tail(all_venues), conferences, years,
                              exclude_workshops)

\* the inner loop of the expansion: the sub-venues not yet listed are added
RECURSIVE add_sub_venues(_, _, _)
add_sub_venues(sub_venues, venue, expanded_venues) ==
    IF sub_venues = <<>> THEN expanded_venues
    ELSE add_sub_venues(
            Tail(sub_venues), venue,
            IF Head(sub_venues) # venue /\ ~InList(Head(sub_venues), expanded_venues)
            THEN Append(expanded_venues, Head(sub_venues))
            ELSE expanded_venues)

\* expanded_venues of get_venues
RECURSIVE expand_venues(_, _, _, _, _)
expand_venues(filtered_venues, expanded_venues, subgroups, years, exclude_workshops) ==
    IF filtered_venues = <<>> THEN expanded_venues
    ELSE LET venue == Head(filtered_venues)
             listed == Append(expanded_venues, venue)
         IN  expand_venues(
                Tail(filtered_venues),
                IF should_expand_venue(venue)
                THEN add_sub_venues(
                        get_all_subgroups(subgroups, venue, years,
                                          exclude_workshops),
                        venue, listed)
                ELSE listed,
                subgroups, years, exclude_workshops)

\* list(dict.fromkeys(venues)): the first occurrences, in order
RECURSIVE unique_venues(_, _)
unique_venues(venues, seen) ==
    IF venues = <<>> THEN seen
    ELSE unique_venues(Tail(venues),
                       IF InList(Head(venues), seen) THEN seen
                       ELSE Append(seen, Head(venues)))

\* the test of one venue in the final loop of get_venues (main_track_only)
is_main_track(venue) ==
    LET lower == Lower(venue)
    IN  /\ ~Contains(lower, <<"c", "o", "m", "p", "e", "t", "i", "t", "i", "o", "n">>)
        /\ ~Contains(lower, <<"h", "i", "g", "h", "_", "s", "c", "h", "o", "o", "l">>)
        /\ ~Contains(lower, <<"c", "r", "e", "a", "t", "i", "v", "e", "_", "a", "i">>)
        /\ ~Contains(lower, <<"d", "e", "m", "o">>)
        /\ ~Contains(lower, <<"d", "a", "t", "a", "s", "e", "t", "s", "_", "a", "n", "d", "_", "b", "e", "n", "c", "h", "m", "a", "r", "k", "s">>)
        /\ ~Contains(lower, <<"e", "d", "u", "c", "a", "t", "i", "o", "n">>)
        /\ ~Contains(lower, <<"p", "o", "s", "i", "t", "i", "o", "n", "_", "p", "a", "p", "e", "r">>)
        /\ ~(Contains(lower, <<"t", "r", "a", "c", "k">>)
             /\ ~Contains(lower, <<"t", "r", "a", "c", "k", "/", "m", "a", "i", "n">>))

\* final_venues of get_venues
RECURSIVE main_track_venues(_)
main_track_venues(venues) ==
    IF venues = <<>> THEN <<>>
    ELSE (IF is_main_track(Head(venues)) THEN <<Head(venues)>> ELSE <<>>)
         \o main_track_venues(Tail(venues))

\* get_venues(client, conferences, years, expand_subgroups, exclude_workshops,
\* main_track_only): its fetch of the registry ends in registry, the fetches
\* of get_all_subgroups in subgroups
get_venues(registry, subgroups, conferences, years, expand_subgroups, exclude_workshops, main_track_only) ==
    IF ~registry.ok THEN <<>>
    ELSE LET filtered_venues ==
                 filter_venues(registry.members, conferences, years,
                               exclude_workshops)
             unique ==
                 unique_venues(
                     expand_venues(filtered_venues, <<>>, subgroups, years,
                                   exclude_workshops),
                     <<>>)
         IN  IF ~expand_subgroups THEN filtered_venues
             ELSE IF main_track_only THEN main_track_venues(unique)
             ELSE unique

\* the arguments and fetch outcomes of one call of get_venues; the fetches
\* of get_all_subgroups see the registry of the first fetch, or fail
VenueArgs ==
    [registry : RegistryOutcomes(RegistryIds, MaxMembers),
     subgroups_ok : BOOLEAN,
     conferences : {<<StrIclrLower>>},
     years : YearsArgs,
     expand_subgroups : BOOLEAN,
     exclude_workshops : BOOLEAN,
     main_track_only : BOOLEAN]

\* what the fetches of get_all_subgroups end in, for the arguments args
subgroups_outcome(args) ==
    IF args.subgroups_ok THEN args.registry ELSE RegistryFailure

VenuesIdle ==
    /\ venues_stage = "idle"
    /\ venues_args = [registry |-> RegistryFailure, subgroups_ok |-> FALSE,
                      conferences |-> <<>>, years |-> <<>>,
                      expand_subgroups |-> FALSE, exclude_workshops |-> FALSE,
                      main_track_only |-> FALSE]
    /\ venues_result = <<>>

VenuesInit ==
    /\ venues_stage = "called"
    /\ venues_args \in VenueArgs
    /\ venues_result = <<>>

\* get_venues returns
GetVenues ==
    /\ venues_stage = "called"
    /\ venues_stage' = "returned"
    /\ venues_result' =
          get_venues(venues_args.registry, subgroups_outcome(venues_args),
                     venues_args.conferences, venues_args.years,
                     venues_args.expand_subgroups,
                     venues_args.exclude_workshops,
                     venues_args.main_track_only)
    /\ UNCHANGED <<venues_args, invokeVars, dedupeVars, exportVars, scrapeVars,
                   extractVars, restVars>>

\* ------------------------------------------------------------------------
\* extractor.Extractor
\* ------------------------------------------------------------------------

\* Python values: str, None, dict, an object with attributes, and the bound
\* method that getattr finds on a str
PyStr(s) == [type |-> "str", str |-> s]

PyNone == [type |-> "NoneType"]

PyDict(items) == [type |-> "dict", items |-> items]

PyObject(attrs) == [type |-> "object", attrs |-> attrs]

PyMethod(name) == [type |-> "builtin_method", name |-> name]

\* an attribute whose access raises
PyRaises == [type |-> "raises"]

\* a key or attribute the record does not have
Absent == [type |-> "absent"]

\* names that are attributes of every str (some of dir(str))
StrAttributes == {"title", "format", "index", "count"}

\* the values of content['title'] in the records extracted from
TitleValues ==
    {PyStr(<<"T">>),
     PyDict([value |-> PyStr(<<"T">>)]),
     PyDict([value |-> PyStr(<<"T">>), readers |-> PyStr(<<"a", "l", "l">>)]),
     PyDict([value |-> PyNone]),
     PyDict([other |-> PyStr(<<"x">>)]),
     PyNone}

\* the items of a dict (the attributes of an object) with the keys of present
\* whose value is not Absent
ItemsOf(present) ==
    [k \in {key \in DOMAIN present : present[key] # Absent} |-> present[k]]

\* the values of the content of a record
ContentDicts ==
    {PyDict(ItemsOf([title |-> t, pdf |-> PyStr(<<"u">>)])) :
        t \in TitleValues \cup {Absent}}

ContentValues ==
    ContentDicts
        \cup {PyObject([title |-> PyDict([value |-> PyStr(<<"T">>)])]),
              PyNone, PyRaises, Absent}

ForumValues ==
    {PyStr(StrP1), PyDict([value |-> PyStr(StrP1)]), PyNone, Absent}

\* the records: dicts and objects with or without forum and content, and None
ExtractPapers ==
    {PyDict(ItemsOf([id |-> PyStr(<<"n">>), forum |-> f, content |-> c])) :
        f \in ForumValues, c \in ContentValues \ {PyRaises}}
    \cup {PyObject(ItemsOf([id |-> PyStr(<<"n">>), forum |-> f, content |-> c])) :
            f \in ForumValues, c \in ContentValues}
    \cup {PyNone}

\* the Extractors: fields, subfields (as the sequence of its items) and
\* include_subfield
ExtractConfigs ==
    [fields : {<<>>, <<"forum">>},
     subfields : {<<>>, <<[name |-> "content", fields |-> <<"title", "abstract">>]>>},
     include_subfield : BOOLEAN]

\* getattr(obj, field, '') inside try/except: '' when the access raises
getattr_default(obj, field) ==
    IF obj.type = "object"
    THEN IF field \in DOMAIN obj.attrs /\ obj.attrs[field] # PyRaises
         THEN obj.attrs[field] ELSE PyStr(<<>>)
    ELSE IF obj.type = "str" /\ field \in StrAttributes
    THEN PyMethod(field)
    ELSE PyStr(<<>>)

\* Extractor._get_field_value(obj, field)
get_field_value(obj, field) ==
    IF obj = PyNone THEN PyStr(<<>>)
    ELSE IF obj.type = "dict"
    THEN IF field \in DOMAIN obj.items THEN obj.items[field] ELSE PyStr(<<>>)
    ELSE getattr_default(obj, field)

\* the handling of the {value: ...} format
unwrap_value(value) ==
    IF value.type = "dict" /\ "value" \in DOMAIN value.items
    THEN value.items["value"] ELSE value

get_nested_field_value_raw(subfield_obj, field) ==
    get_field_value(subfield_obj, field)

\* Extractor._get_nested_field_value(subfield_obj, field)
get_nested_field_value(subfield_obj, field) ==
    IF subfield_obj = PyNone THEN PyStr(<<>>)
    ELSE IF subfield_obj.type = "dict"
    THEN unwrap_value(IF field \in DOMAIN subfield_obj.items
                      THEN subfield_obj.items[field] ELSE PyStr(<<>>))
    ELSE unwrap_value(getattr_default(subfield_obj, field))

\* a dict after the assignments of new: new[k] where new has k, else old[k]
Assigned(old, new) ==
    [k \in DOMAIN old \cup DOMAIN new |->
        IF k \in DOMAIN new THEN new[k] ELSE old[k]]

\* the loop of extract over the items of subfields
RECURSIVE extract_subfields(_, _, _, _)
extract_subfields(paper, subfields, include_subfield, trimmed_paper) ==
    IF subfields = <<>> THEN trimmed_paper
    ELSE LET subfield_name == Head(subfields).name
             field_list == Head(subfields).fields
             subfield_obj == get_field_value(paper, subfield_name)
             values == [field \in Range(field_list) |->
                           get_nested_field_value(subfield_obj, field)]
         IN  extract_subfields(
                paper, Tail(subfields), include_subfield,
                Assigned(trimmed_paper,
                         IF include_subfield
                         THEN [k \in {subfield_name} |-> PyDict(values)]
                         ELSE values))

\* Extractor.extract(paper)
extract(paper, fields, subfields, include_subfield) ==
    extract_subfields(paper, subfields, include_subfield,
                      [field \in Range(fields) |-> get_field_value(paper, field)])

ExtractIdle ==
    /\ extract_stage = "idle"
    /\ extract_paper = PyNone
    /\ extract_config = [fields |-> <<>>, subfields |-> <<>>,
                         include_subfield |-> FALSE]
    /\ extract_result = [field \in {} |-> PyNone]

ExtractInit ==
    /\ extract_stage = "called"
    /\ extract_paper \in ExtractPapers
    /\ extract_config \in ExtractConfigs
    /\ extract_result = [field \in {} |-> PyNone]

\* extractor(paper) returns
Extract ==
    /\ extract_stage = "called"
    /\ extract_stage' = "returned"
    /\ extract_result' = extract(extract_paper, extract_config.fields,
                                 extract_config.subfields,
                                 extract_config.include_subfield)
    /\ UNCHANGED <<extract_paper, extract_config, invokeVars, dedupeVars,
                   exportVars, scrapeVars, venueVars, restVars>>

\* ------------------------------------------------------------------------
\* paper.get_venue_papers .. flatten_papers, scraper.Scraper.scrape
\* ------------------------------------------------------------------------

\* s.split(sep): the pieces of s between the occurrences of sep
RECURSIVE Split(_, _)
Split(s, sep) ==
    IF Find(s, sep) = 0 THEN <<s>>
    ELSE <<SubSeq(s, 1, Find(s, sep) - 1)>>
         \o Split(SubSeq(s, Find(s, sep) + Len(sep), Len(s)), sep)

\* s.isdigit() for ASCII text
IsDigit(s) == s # <<>> /\ \A i \in 1..Len(s) : s[i] \in Range(DigitChars)

\* the conferences (and groups) the Scraper is built with
StrICLR == <<"I", "C", "L", "R">>

ScraperConferences == <<StrICLR>>

\* the venue ids of the registry that a run sees
VenueIds == {VenueConference, VenueOral}

\* the Notes client.get_all_notes can return
FetchedNotes == {NoteP1A, NoteP1B, NoteP2}

\* the sequences over S without a repeated element
DistinctSeqs(S) ==
    {s \in SeqsUpTo(S, Cardinality(S)) :
        \A i, j \in 1..Len(s) : i # j => s[i] # s[j]}

\* what one call of client.get_all_notes through safe_api_call ends in:
\* the notes, or the exception that safe_api_call raises after its retries
ApiOutcomes ==
    [ok : {TRUE}, notes : SeqsUpTo(FetchedNotes, MaxFetched)]
        \cup {[ok |-> FALSE, notes |-> <<>>]}

\* get_venue_papers(client, venue, only_accepted=True): the fetched notes
\* ([] when the fetch raised), deduplicated
get_venue_papers(outcome) ==
    deduplicate_papers(IF outcome.ok THEN outcome.notes ELSE <<>>)

\* get_grouped_venue_papers: {venue: get_venue_papers(venue)}, as the
\* sequence of its items
get_grouped_venue_papers(venues, api) ==
    [i \in 1..Len(venues) |->
        [venue |-> venues[i], papers |-> get_venue_papers(api[venues[i]])]]

\* the venues of one conference in group_venues: those that hold its name,
\* in any letter case, and the name of no earlier conference
RECURSIVE venues_of(_, _, _)
venues_of(venues, conferences, c) ==
    IF venues = <<>> THEN <<>>
    ELSE LET venue == Head(venues)
             holds(k) == Contains(Lower(venue), Lower(conferences[k]))
         IN  (IF holds(c) /\ \A k \in 1..(c - 1) : ~holds(k)
              THEN <<venue>> ELSE <<>>)
             \o venues_of(Tail(venues), conferences, c)

\* group_venues(venues, conferences): {conf: [venue, ...]}, as the sequence
\* of its items
group_venues(venues, conferences) ==
    [c \in 1..Len(conferences) |->
        [group |-> conferences[c],
         venues |-> venues_of(venues, conferences, c)]]

\* get_papers: {conference: get_grouped_venue_papers(venues)}
get_papers(grouped_venues, api) ==
    [g \in 1..Len(grouped_venues) |->
        [group |-> grouped_venues[g].group,
         venues |-> get_grouped_venue_papers(grouped_venues[g].venues, api)]]

\* all_papers of flatten_papers and of papers_to_list: the lists of all
\* groups and venues, one after the other
RECURSIVE concat_papers(_)
concat_papers(venue_items) ==
    IF venue_items = <<>> THEN <<>>
    ELSE Head(venue_items).papers \o concat_papers(Tail(venue_items))

RECURSIVE concat_groups(_)
concat_groups(papers) ==
    IF papers = <<>> THEN <<>>
    ELSE concat_papers(Head(papers).venues) \o concat_groups(Tail(papers))

\* utils.papers_to_list
papers_to_list(papers) == concat_groups(papers)

\* paper.flatten_papers
flatten_papers(papers) == deduplicate_papers(concat_groups(papers))

\* Scraper._parse_venue(venue)['year']: the first part of four digits
RECURSIVE first_year(_)
first_year(parts) ==
    IF parts = <<>> THEN <<>>
    ELSE IF IsDigit(Head(parts)) /\ Len(Head(parts)) = 4 THEN Head(parts)
    ELSE first_year(Tail(parts))

parse_venue_year(venue) == first_year(Split(venue, <<"/">>))

\* Scraper._infer_presentation_type
infer_presentation_type(venue) ==
    IF Contains(Lower(venue), <<"o", "r", "a", "l">>)
       /\ ~Contains(Lower(venue), <<"s", "p", "o", "t", "l", "i", "g", "h", "t">>)
    THEN StrOral
    ELSE IF Contains(Lower(venue), <<"s", "p", "o", "t", "l", "i", "g", "h", "t">>)
    THEN StrSpotlight
    ELSE StrPoster

\* extracted_paper of one Note in _apply_on_papers, for the Extractor of
\* create_scraper: forum, the content fields, the presentation type that
\* _add_metadata sets, and the year of the venue
extracted_paper(paper, venue) ==
    [forum |-> IF paper.has_forum THEN paper.forum ELSE <<>>,
     title |-> paper.title,
     abstract |-> <<>>,
     keywords |-> <<>>,
     pdf |-> <<>>,
     presentation_type |-> infer_presentation_type(venue),
     year |-> parse_venue_year(venue)]

\* the papers of one venue in _apply_on_papers: with filters and keywords
\* set, a paper that satisfies no filter is skipped
RECURSIVE apply_on_venue(_, _, _, _)
apply_on_venue(venue_papers, venue, filtering, satisfying) ==
    IF venue_papers = <<>> THEN <<>>
    ELSE (IF filtering /\ Head(venue_papers) \notin satisfying
          THEN <<>>
          ELSE <<extracted_paper(Head(venue_papers), venue)>>)
         \o apply_on_venue(Tail(venue_papers), venue, filtering, satisfying)

\* Scraper._apply_on_papers
apply_on_papers(papers, filtering, satisfying) ==
    [g \in 1..Len(papers) |->
        [group |-> papers[g].group,
         venues |->
            [v \in 1..Len(papers[g].venues) |->
                [venue |-> papers[g].venues[v].venue,
                 papers |-> apply_on_venue(papers[g].venues[v].papers,
                                           papers[g].venues[v].venue,
                                           filtering, satisfying)]]]]

\* the years the Scraper is built with
ScraperYears == <<Str2024>>

\* what the registry fetch of a run can end in
ScrapeRegistryOutcomes ==
    [ok : {TRUE}, members : DistinctSeqs(VenueIds)] \cup {RegistryFailure}

\* the venues get_papers fetches: those of all groups, in order
RECURSIVE venues_fetched(_)
venues_fetched(grouped_venues) ==
    IF grouped_venues = <<>> THEN <<>>
    ELSE Head(grouped_venues).venues \o venues_fetched(Tail(grouped_venues))

\* the export file a run of an earlier day left
ScrapedFile == to_csv(NoFile, <<RowP1Poster>>, PathIclr, DEFAULT_CSV_FIELDS, TRUE)

ScrapeIdle ==
    /\ scrape_count = 0
    /\ raw_papers = <<>>
    /\ scrape_result = <<>>
    /\ scrape_registry = RegistryFailure
    /\ scrape_venues = <<>>
    /\ fetched_venues = <<>>

\* the steps of scrape() after the return on an empty venue list
ScrapeVenues(api, filtering, satisfying) ==
    /\ fetched_venues' =
          venues_fetched(group_venues(scrape_venues', ScraperConferences))
    /\ raw_papers' =
          get_papers(group_venues(scrape_venues', ScraperConferences), api)
    /\ scrape_result' =
          papers_to_list(apply_on_papers(raw_papers', filtering, satisfying))
    /\ file' = to_csv(file, scrape_result', fpath, DEFAULT_CSV_FIELDS, TRUE)
    /\ prev_file' = file
    /\ export_count' = export_count + 1
    /\ last_export' = [papers_list |-> scrape_result',
                       fields |-> DEFAULT_CSV_FIELDS, append |-> TRUE]

\* scrape() without the return on an empty venue list
ScrapeAlways(registry, api, filtering, satisfying) ==
    /\ scrape_count < MaxScrapes
    /\ scrape_count' = scrape_count + 1
    /\ scrape_registry' = registry
    /\ scrape_venues' = get_venues(registry, registry, ScraperConferences,
                                   ScraperYears, TRUE, TRUE, TRUE)
    /\ ScrapeVenues(api, filtering, satisfying)
    /\ UNCHANGED <<fpath, invokeVars, dedupeVars, venueVars, extractVars, restVars>>

\* Scraper.scrape(), given what the registry fetches of get_venues end in
\* (registry), what the fetch of every venue ends in (api), whether filters
\* and keywords are both set (filtering) and the Notes that satisfy some
\* filter (satisfying)
Scrape(registry, api, filtering, satisfying) ==
    /\ scrape_count < MaxScrapes
    /\ scrape_count' = scrape_count + 1
    /\ scrape_registry' = registry
    /\ scrape_venues' = get_venues(registry, registry, ScraperConferences,
                                   ScraperYears, TRUE, TRUE, TRUE)
    /\ IF scrape_venues' = <<>>
       THEN /\ scrape_result' = <<>>
            /\ fetched_venues' = <<>>
            /\ UNCHANGED <<raw_papers, file, prev_file, last_export,
                           export_count>>
       ELSE ScrapeVenues(api, filtering, satisfying)
    /\ UNCHANGED <<fpath, invokeVars, dedupeVars, venueVars, extractVars, restVars>>


\* ---------------------------------------------------------------------
\* filters.py: the approximate filter engine
\* ---------------------------------------------------------------------

KwAI == "ai"
KwML == "ml"
FilterKeywords == {KwAI, KwML}
FilterFields == {"title", "abstract"}

\* Scores thefuzz can give a keyword against a text, below and above the
\* default threshold.
Scores == {80, 88}
DefaultThreshold == 85
CustomThreshold == 90

\* A record as the filters see it: which content fields it has, and the
\* score fuzz.partial_ratio gives each keyword against each field.
FilterPapers == [has : [FilterFields -> BOOLEAN],
                 ratio : [FilterFields -> [FilterKeywords -> Scores]]]

KeywordLists == {<<>>, <<KwAI>>, <<KwML, KwAI>>}

FilterFuncs == {"title_filter", "abstract_filter", "always_match_filter"}

\* (filter_func, args, kwargs)
FilterRules == [func : FilterFuncs, args : {<<>>, <<CustomThreshold>>},
                kwargs : {<<>>, <<(<<"threshold", CustomThreshold>>)>>}]

\* _get_paper_field(paper, field): None when the content lacks the field
get_paper_field(paper, field) ==
    IF paper.has[field] THEN paper.ratio[field] ELSE NoneVal

RECURSIVE check_keywords_loop(_, _, _, _)
check_keywords_loop(keywords, text, threshold, k) ==
    IF k > Len(keywords) THEN <<NoneVal, FALSE>>
    ELSE IF text[keywords[k]] >= threshold THEN <<keywords[k], TRUE>>
    ELSE check_keywords_loop(keywords, text, threshold, k + 1)

\* check_keywords_with_text(keywords, text, threshold)
check_keywords_with_text(keywords, text, threshold) ==
    IF text = NoneVal THEN <<NoneVal, FALSE>>
    ELSE check_keywords_loop(keywords, text, threshold, 1)

title_filter(paper, keywords, threshold) ==
    LET paper_title == get_paper_field(paper, "title")
    IN  IF paper_title # NoneVal
        THEN check_keywords_with_text(keywords, paper_title, threshold)
        ELSE <<NoneVal, FALSE>>

abstract_filter(paper, keywords, threshold) ==
    LET paper_abstract == get_paper_field(paper, "abstract")
    IN  IF paper_abstract # NoneVal
        THEN check_keywords_with_text(keywords, paper_abstract, threshold)
        ELSE <<NoneVal, FALSE>>

always_match_filter(paper, keywords) == <<"all", TRUE>>

\* kwargs.get(key, default) of a keyword-argument dict
kwarg(kwargs, key, default) ==
    IF \E i \in 1..Len(kwargs) : kwargs[i][1] = key
    THEN kwargs[CHOOSE i \in 1..Len(kwargs) : kwargs[i][1] = key][2]
    ELSE default

FilterRaised == <<"TypeError", FALSE>>

call_filter_kwargs_only(func, args, kwargs, paper, keywords) ==
    LET threshold == kwarg(kwargs, "threshold", DefaultThreshold)
    IN  CASE func = "title_filter" -> title_filter(paper, keywords, threshold)
          [] func = "abstract_filter" -> abstract_filter(paper, keywords, threshold)
          [] func = "always_match_filter" -> always_match_filter(paper, keywords)

\* filter_func(paper, keywords=keywords, *args, **kwargs): a positional
\* argument after paper binds to the parameter keywords, which the call
\* also passes by name, and Python raises TypeError.
call_filter(func, args, kwargs, paper, keywords) ==
    IF Len(args) > 0 THEN FilterRaised
    ELSE call_filter_kwargs_only(func, args, kwargs, paper, keywords)

FilterRejected == [stage |-> "returned", result |-> <<NoneVal, NoneVal, FALSE>>]

\* for filter_func, args, kwargs in filters: ... (from rule i on)
RECURSIVE filters_loop(_, _, _, _)
filters_loop(paper, keywords, filters, i) ==
    IF i > Len(filters) THEN FilterRejected @@ [calls |-> <<>>]
    ELSE LET r == call_filter(filters[i].func, filters[i].args,
                              filters[i].kwargs, paper, keywords)
         IN  IF r = FilterRaised
             THEN [stage |-> "raised", result |-> <<NoneVal, NoneVal, FALSE>>,
                   calls |-> <<i>>]
             ELSE IF r[2]
             THEN [stage |-> "returned",
                   result |-> <<r[1], filters[i].func, TRUE>>,
                   calls |-> <<i>>]
             ELSE LET rest == filters_loop(paper, keywords, filters, i + 1)
                  IN  [rest EXCEPT !.calls = <<i>> \o rest.calls]

satisfies_any_filters(paper, keywords, filters) ==
    filters_loop(paper, keywords, filters, 1)

FiltersIdle ==
    /\ filter_stage = "idle"
    /\ filter_args = [paper |-> NoneVal, keywords |-> <<>>, filters |-> <<>>]
    /\ filter_result = <<NoneVal, NoneVal, FALSE>>
    /\ filter_calls = <<>>

FiltersInit ==
    /\ filter_stage = "called"
    /\ filter_args \in [paper : FilterPapers, keywords : KeywordLists,
                        filters : SeqsUpTo(FilterRules, MaxRules)]
    /\ filter_result = <<NoneVal, NoneVal, FALSE>>
    /\ filter_calls = <<>>

\* satisfies_any_filters(paper, keywords, filters) returns or raises
SatisfiesAnyFilters ==
    /\ filter_stage = "called"
    /\ LET r == satisfies_any_filters(filter_args.paper, filter_args.keywords,
                                      filter_args.filters)
       IN  /\ filter_stage' = r.stage
           /\ filter_result' = r.result
           /\ filter_calls' = r.calls
    /\ UNCHANGED <<filter_args, invokeVars, dedupeVars, exportVars, scrapeVars,
                   venueVars, extractVars, fetchVars, resolveVars, concVars, applyVars>>

\* ---------------------------------------------------------------------
\* paper.py: get_papers and get_grouped_venue_papers, one call at a time
\* ---------------------------------------------------------------------

StrICML == <<"I", "C", "M", "L">>
VenueIcml == <<"I", "C", "M", "L", ".", "c", "c", "/", "2", "0", "2", "4", "/", "C", "o", "n", "f", "e", "r", "e", "n", "c", "e">>

\* delay_between_venues: float = 2.0
DelayBetweenVenues == 2

\* grouped_venues, {conference: [venue, ...]} as the sequence of its items
IclrGroups ==
    {[group |-> StrICLR, venues |-> vs] :
        vs \in DistinctSeqsUpTo({VenueConference, VenueOral}, MaxGroupVenues)}

IcmlGroups == {[group |-> StrICML, venues |-> vs] : vs \in {<<>>, <<VenueIcml>>}}

GroupedVenues ==
    {<<>>} \cup {<<g>> : g \in IclrGroups}
           \cup {<<g, h>> : g \in IclrGroups, h \in IcmlGroups}

\* what a get_all_notes call through safe_api_call can end in
FetchOutcomes ==
    {[ok |-> FALSE, notes |-> <<>>], [ok |-> TRUE, notes |-> <<>>],
     [ok |-> TRUE, notes |-> <<NoteP1A, NoteP1B>>],
     [ok |-> TRUE, notes |-> <<NoteP1A, NoteP2>>]}

\* a get_all_notes call for a venue, and whether it returned
FetchEvent(venue, ok) == <<"get_all_notes", venue, ok>>
SleepEvent(seconds) == <<"sleep", seconds>>

\* for conference, venues in grouped_venues.items(): the loop of get_papers
\* from group g on, up to the first get_all_notes call; the groups without
\* venues get {}
RECURSIVE enter_group(_, _, _)
enter_group(done, grouped_venues, g) ==
    IF g > Len(grouped_venues)
    THEN [done |-> done,
          pc |-> [stage |-> "returned", group |-> g, idx |-> 0]]
    ELSE IF grouped_venues[g].venues = <<>>
    THEN enter_group(Append(done, [group |-> grouped_venues[g].group,
                                         venues |-> <<>>]),
                     grouped_venues, g + 1)
    ELSE [done |-> done,
          pc |-> [stage |-> "fetch", group |-> g, idx |-> 1]]

FetchIdle ==
    /\ fetch_args = <<>>
    /\ fetch_pc = [stage |-> "idle", group |-> 0, idx |-> 0]
    /\ fetch_events = <<>>
    /\ fetch_papers = <<>>
    /\ fetch_all_papers = <<>>

FetchInit ==
    /\ fetch_args \in GroupedVenues
    /\ fetch_pc = [stage |-> "called", group |-> 0, idx |-> 0]
    /\ fetch_events = <<>>
    /\ fetch_papers = <<>>
    /\ fetch_all_papers = <<>>

FetchOthers ==
    <<invokeVars, dedupeVars, exportVars, scrapeVars, venueVars, extractVars,
      filterVars, resolveVars, concVars, applyVars>>

\* get_papers(client, grouped_venues) is entered
GetPapers ==
    /\ fetch_pc.stage = "called"
    /\ LET e == enter_group(<<>>, fetch_args, 1)
       IN  fetch_pc' = e.pc /\ fetch_all_papers' = e.done
    /\ UNCHANGED <<fetch_args, fetch_events, fetch_papers, FetchOthers>>

\* the step after papers[venue] = ...: the sleep between two venues of the
\* group, or the return to get_papers and its next group
after_venue_no_sleep(papers, done, grouped_venues, pc) ==
    LET venues == grouped_venues[pc.group].venues
    IN  IF pc.idx < Len(venues)
        THEN [papers |-> papers, done |-> done,
              pc |-> [pc EXCEPT !.idx = pc.idx + 1]]
        ELSE LET e == enter_group(
                          Append(done,
                                 [group |-> grouped_venues[pc.group].group,
                                  venues |-> papers]),
                          grouped_venues, pc.group + 1)
             IN  [papers |-> <<>>, done |-> e.done, pc |-> e.pc]

after_venue(papers, done, grouped_venues, pc) ==
    LET venues == grouped_venues[pc.group].venues
    IN  IF pc.idx < Len(venues) /\ DelayBetweenVenues > 0
        THEN [papers |-> papers, done |-> done,
              pc |-> [pc EXCEPT !.stage = "sleep"]]
        ELSE after_venue_no_sleep(papers, done, grouped_venues, pc)

\* a fetch whose failure is not caught
FetchVenueRaises(outcome) ==
    /\ fetch_pc.stage = "fetch"
    /\ LET venue == fetch_args[fetch_pc.group].venues[fetch_pc.idx]
           papers == Append(fetch_papers,
                            [venue |-> venue,
                             papers |-> get_venue_papers(outcome)])
           a == after_venue(papers, fetch_all_papers, fetch_args, fetch_pc)
       IN  /\ fetch_events' = Append(fetch_events, FetchEvent(venue, outcome.ok))
           /\ fetch_papers' = IF outcome.ok THEN a.papers ELSE fetch_papers
           /\ fetch_all_papers' = IF outcome.ok THEN a.done ELSE fetch_all_papers
           /\ fetch_pc' = IF outcome.ok THEN a.pc
                          ELSE [fetch_pc EXCEPT !.stage = "raised"]
    /\ UNCHANGED <<fetch_args, FetchOthers>>

\* papers[venue] = get_venue_papers(client, venue)
FetchVenue(outcome) ==
    /\ fetch_pc.stage = "fetch"
    /\ LET venue == fetch_args[fetch_pc.group].venues[fetch_pc.idx]
           papers == Append(fetch_papers,
                            [venue |-> venue,
                             papers |-> get_venue_papers(outcome)])
           a == after_venue(papers, fetch_all_papers, fetch_args, fetch_pc)
       IN  /\ fetch_events' = Append(fetch_events, FetchEvent(venue, outcome.ok))
           /\ fetch_papers' = a.papers
           /\ fetch_all_papers' = a.done
           /\ fetch_pc' = a.pc
    /\ UNCHANGED <<fetch_args, FetchOthers>>

\* time.sleep(delay_between_venues)
SleepBetweenVenues ==
    /\ fetch_pc.stage = "sleep"
    /\ fetch_events' = Append(fetch_events, SleepEvent(DelayBetweenVenues))
    /\ fetch_pc' = [fetch_pc EXCEPT !.stage = "fetch", !.idx = fetch_pc.idx + 1]
    /\ UNCHANGED <<fetch_args, fetch_papers, fetch_all_papers, FetchOthers>>

\* ---------------------------------------------------------------------
\* venue.py: get_venues, one client.get_group call at a time
\* ---------------------------------------------------------------------

\* the registries the server can hold during a call
RemoteRegistries ==
    DistinctSeqsUpTo({VenueConference, VenueOral, VenueTrackMain}, MaxMembers)

ResolveArgs ==
    [conferences : {<<StrIclrLower>>}, years : {<<Str2024>>},
     expand_subgroups : BOOLEAN, exclude_workshops : {FALSE},
     main_track_only : BOOLEAN]

ResolveIdle ==
    /\ resolve_args = [conferences |-> <<>>, years |-> <<>>,
                       expand_subgroups |-> FALSE, exclude_workshops |-> FALSE,
                       main_track_only |-> FALSE]
    /\ resolve_remote = [members |-> <<>>, changes |-> 0]
    /\ resolve_fetches = <<>>
    /\ resolve_pc = [stage |-> "idle", idx |-> 0]
    /\ resolve_locals = [filtered_venues |-> <<>>, expanded_venues |-> <<>>]
    /\ resolve_result = <<>>

ResolveInit ==
    /\ resolve_args \in ResolveArgs
    /\ resolve_remote \in [members : RemoteRegistries, changes : {0}]
    /\ resolve_fetches = <<>>
    /\ resolve_pc = [stage |-> "called", idx |-> 0]
    /\ resolve_locals = [filtered_venues |-> <<>>, expanded_venues |-> <<>>]
    /\ resolve_result = <<>>

ResolveOthers ==
    <<invokeVars, dedupeVars, exportVars, scrapeVars, venueVars, extractVars,
      filterVars, fetchVars, concVars, applyVars>>

\* the server's registry changes while get_venues runs
RegistryChanges(members) ==
    /\ resolve_pc.stage \in {"called", "expand"}
    /\ resolve_remote.changes < MaxChanges
    /\ members # resolve_remote.members
    /\ resolve_remote' = [members |-> members,
                          changes |-> resolve_remote.changes + 1]
    /\ UNCHANGED <<resolve_args, resolve_fetches, resolve_pc, resolve_locals,
                   resolve_result, ResolveOthers>>

\* safe_api_call(client.get_group, id='venues'): the registry of the moment,
\* or the exception raised after the retries
get_group(ok) ==
    IF ok THEN [ok |-> TRUE, members |-> resolve_remote.members]
    ELSE RegistryFailure

\* get_venues up to the expansion loop: the fetch of the registry and the
\* year and conference filter
GetVenuesFetch(ok) ==
    /\ resolve_pc.stage = "called"
    /\ LET fetched == get_group(ok)
           filtered_venues ==
               filter_venues(fetched.members, resolve_args.conferences,
                             resolve_args.years, resolve_args.exclude_workshops)
       IN  /\ resolve_fetches' = Append(resolve_fetches, fetched)
           /\ resolve_locals' = [filtered_venues |-> filtered_venues,
                                 expanded_venues |-> <<>>]
           /\ IF ~fetched.ok
              THEN /\ resolve_pc' = [stage |-> "returned", idx |-> 0]
                   /\ resolve_result' = <<>>
              ELSE IF ~resolve_args.expand_subgroups
              THEN /\ resolve_pc' = [stage |-> "returned", idx |-> 0]
                   /\ resolve_result' = filtered_venues
              ELSE /\ resolve_pc' = [stage |-> "expand", idx |-> 1]
                   /\ resolve_result' = <<>>
    /\ UNCHANGED <<resolve_args, resolve_remote, ResolveOthers>>

\* one round of for venue in filtered_venues, for a venue that
\* _should_expand_venue: get_all_subgroups fetches the registry
ExpandVenue(ok) ==
    /\ resolve_pc.stage = "expand"
    /\ resolve_pc.idx <= Len(resolve_locals.filtered_venues)
    /\ LET venue == resolve_locals.filtered_venues[resolve_pc.idx]
           listed == Append(resolve_locals.expanded_venues, venue)
           fetched == get_group(ok)
       IN  /\ should_expand_venue(venue)
           /\ resolve_fetches' = Append(resolve_fetches, fetched)
           /\ resolve_locals' =
                  [resolve_locals EXCEPT !.expanded_venues =
                      add_sub_venues(
                          get_all_subgroups(fetched, venue, resolve_args.years,
                                            resolve_args.exclude_workshops),
                          venue, listed)]
    /\ resolve_pc' = [resolve_pc EXCEPT !.idx = resolve_pc.idx + 1]
    /\ UNCHANGED <<resolve_args, resolve_remote, resolve_result, ResolveOthers>>

\* one round of for venue in filtered_venues, for any other venue
KeepVenue ==
    /\ resolve_pc.stage = "expand"
    /\ resolve_pc.idx <= Len(resolve_locals.filtered_venues)
    /\ LET venue == resolve_locals.filtered_venues[resolve_pc.idx]
       IN  /\ ~should_expand_venue(venue)
           /\ resolve_locals' =
                  [resolve_locals EXCEPT !.expanded_venues =
                      Append(resolve_locals.expanded_venues, venue)]
    /\ resolve_pc' = [resolve_pc EXCEPT !.idx = resolve_pc.idx + 1]
    /\ UNCHANGED <<resolve_args, resolve_remote, resolve_fetches,
                   resolve_result, ResolveOthers>>

\* get_venues after the expansion loop: the order-keeping deduplication and
\* the main-track filter
GetVenuesReturn ==
    /\ resolve_pc.stage = "expand"
    /\ resolve_pc.idx > Len(resolve_locals.filtered_venues)
    /\ LET unique == unique_venues(resolve_locals.expanded_venues, <<>>)
       IN  resolve_result' = IF resolve_args.main_track_only
                             THEN main_track_venues(unique) ELSE unique
    /\ resolve_pc' = [stage |-> "returned", idx |-> 0]
    /\ UNCHANGED <<resolve_args, resolve_remote, resolve_fetches,
                   resolve_locals, ResolveOthers>>

\* ---------------------------------------------------------------------
\* utils.py: two to_csv calls on the same path, not serialized
\* ---------------------------------------------------------------------

Writers == {1, 2}

\* the non-empty papers_list of a call
ConcLists == {<<RowP1Poster>>, <<RowP2Oral>>, <<RowP4>>, <<RowP2Oral, RowP4>>}

ConcIdle ==
    /\ conc_args = <<>>
    /\ conc_pc = [w \in Writers |-> "idle"]
    /\ conc_read = [w \in Writers |-> NoFile]
    /\ conc_events = <<>>

ConcInit ==
    /\ conc_args \in [Writers -> ConcLists]
    /\ conc_pc = [w \in Writers |-> "called"]
    /\ conc_read = [w \in Writers |-> NoFile]
    /\ conc_events = <<>>

ConcOthers ==
    <<fpath, prev_file, last_export, export_count, invokeVars, dedupeVars,
      scrapeVars, venueVars, extractVars, filterVars, fetchVars, resolveVars, applyVars>>

\* to_csv of writer w up to all_papers: the file is opened and read
ConcRead(w) ==
    /\ conc_pc[w] = "called"
    /\ conc_read' = [conc_read EXCEPT ![w] = file]
    /\ conc_pc' = [conc_pc EXCEPT ![w] = "read"]
    /\ conc_events' = Append(conc_events, <<"read", w>>)
    /\ UNCHANGED <<file, conc_args, ConcOthers>>

\* a write that merges with the file of the moment, as under a lock
ConcWriteLocked(w) ==
    /\ conc_pc[w] = "read"
    /\ file' = to_csv(file, conc_args[w], fpath, DEFAULT_CSV_FIELDS, TRUE)
    /\ conc_pc' = [conc_pc EXCEPT ![w] = "written"]
    /\ conc_events' = Append(conc_events, <<"write", w>>)
    /\ UNCHANGED <<conc_args, conc_read, ConcOthers>>

\* the rest of to_csv of writer w: the rows it read are merged with its
\* papers_list and the file is rewritten
ConcWrite(w) ==
    /\ conc_pc[w] = "read"
    /\ file' = to_csv(conc_read[w], conc_args[w], fpath, DEFAULT_CSV_FIELDS, TRUE)
    /\ conc_pc' = [conc_pc EXCEPT ![w] = "written"]
    /\ conc_events' = Append(conc_events, <<"write", w>>)
    /\ UNCHANGED <<conc_args, conc_read, ConcOthers>>

\* ---------------------------------------------------------------------
\* scraper.py: Scraper._apply_on_papers over the papers of one venue
\* ---------------------------------------------------------------------

\* the fetched papers: Notes with a title and an abstract, the abstract
\* matching no keyword
ApplyPapers ==
    {p \in FilterPapers :
        /\ \A field \in FilterFields : p.has[field]
        /\ \A k \in FilterKeywords : p.ratio["abstract"][k] = 80}

\* the rules add_filter can have appended to self.filters
ApplyRules ==
    {r \in FilterRules : r.func # "always_match_filter" /\ r.kwargs = <<>>}

\* if self.filters and self.keywords
filtering_enabled(filters, keywords) == filters # <<>> /\ keywords # <<>>

\* the extracted paper of the paper at position i of the venue, after
\* _add_metadata and the Extractor
extracted_at(i, venue) ==
    [source |-> i,
     presentation_type |-> infer_presentation_type(venue),
     year |-> parse_venue_year(venue)]

\* for paper in venue_papers, from position i on; acc holds what the loop
\* has done so far
RECURSIVE apply_loop(_, _, _, _, _, _)
apply_loop(venue_papers, venue, keywords, filters, i, acc) ==
    IF i > Len(venue_papers) THEN [acc EXCEPT !.stage = "returned"]
    ELSE LET accepted ==
                 [acc EXCEPT !.mutated = acc.mutated \cup {i},
                             !.result = Append(acc.result,
                                               extracted_at(i, venue))]
         IN  IF filtering_enabled(filters, keywords)
             THEN LET r == satisfies_any_filters(venue_papers[i], keywords,
                                                 filters)
                      called == [accepted EXCEPT !.calls = acc.calls \cup {i}]
                  IN  IF r.stage = "raised"
                      THEN [acc EXCEPT !.stage = "raised", !.result = <<>>,
                                       !.calls = acc.calls \cup {i}]
                      ELSE IF ~r.result[3]
                      THEN apply_loop(venue_papers, venue, keywords, filters,
                                      i + 1,
                                      [acc EXCEPT !.calls = acc.calls \cup {i}])
                      ELSE apply_loop(venue_papers, venue, keywords, filters,
                                      i + 1, called)
             ELSE apply_loop(venue_papers, venue, keywords, filters, i + 1,
                             accepted)

\* _apply_on_papers for one venue
apply_on_venue_papers(venue_papers, venue, keywords, filters) ==
    apply_loop(venue_papers, venue, keywords, filters, 1,
               [stage |-> "called", result |-> <<>>, calls |-> {},
                mutated |-> {}])

ApplyIdle ==
    /\ apply_stage = "idle"
    /\ apply_args = [keywords |-> <<>>, filters |-> <<>>, venue_papers |-> <<>>]
    /\ apply_result = <<>>
    /\ apply_calls = {}
    /\ apply_mutated = {}

ApplyInit ==
    /\ apply_stage = "called"
    /\ apply_args \in [keywords : KeywordLists,
                       filters : SeqsUpTo(ApplyRules, MaxRules),
                       venue_papers : SeqsUpTo(ApplyPapers, MaxVenuePapers)]
    /\ apply_result = <<>>
    /\ apply_calls = {}
    /\ apply_mutated = {}

\* self._apply_on_papers(papers) returns or raises
ApplyOnPapers ==
    /\ apply_stage = "called"
    /\ LET r == apply_on_venue_papers(apply_args.venue_papers, VenueOral,
                                      apply_args.keywords, apply_args.filters)
       IN  /\ apply_stage' = r.stage
           /\ apply_result' = r.result
           /\ apply_calls' = r.calls
           /\ apply_mutated' = r.mutated
    /\ UNCHANGED <<apply_args, fpath, file, prev_file, last_export, export_count,
                   invokeVars, dedupeVars, scrapeVars, venueVars, extractVars,
                   filterVars, fetchVars, resolveVars, concVars>>

RestIdle ==
    FiltersIdle /\ FetchIdle /\ ResolveIdle /\ ConcIdle /\ ApplyIdle
InvokeStep ==
    \/ \E v \in ReturnValues : AttemptReturns(v)
    \/ \E msg \in Messages : AttemptRaises(msg)
    \/ LoopExhausted

NextInvoke ==
    \/ \E args \in InvokeArgs : InvokeStart(args)
    \/ InvokeStep

\* The invoker alone.  The loop of wrapper runs on as long as func and
\* time.sleep return, which is the fairness of its steps.
InitInvoke == InvokeIdle /\ DedupeIdle /\ ExportIdle /\ ScrapeIdle /\ ExtractIdle /\ RestIdle /\ VenuesIdle /\ fpath = PathIclr

SpecInvoke == InitInvoke /\ [][NextInvoke]_vars /\ WF_vars(InvokeStep)

NextDedupe == Dedupe \/ DedupeAgain

InitDedupe == InvokeIdle /\ DedupeInit /\ ExportIdle /\ ScrapeIdle /\ ExtractIdle /\ RestIdle /\ VenuesIdle /\ fpath = PathIclr

\* The deduplicator alone, applied once and twice to any record sequence.
SpecDedupe == InitDedupe /\ [][NextDedupe]_vars

NextExport ==
    \E papers_list \in SeqsUpTo(NewRows, MaxRows), fields \in FieldsArgs,
       append \in BOOLEAN :
        Export(papers_list, fields, append)

InitExport == InvokeIdle /\ DedupeIdle /\ ExportIdle /\ ScrapeIdle /\ ExtractIdle /\ RestIdle /\ VenuesIdle /\ fpath \in Paths

\* Exports to one path, one after the other, starting with no file there.
SpecExport == InitExport /\ [][NextExport]_vars

NextScrape ==
    \E registry \in ScrapeRegistryOutcomes, api \in [VenueIds -> ApiOutcomes],
       filtering \in BOOLEAN :
        \E satisfying \in IF filtering THEN SUBSET FetchedNotes ELSE {{}} :
            Scrape(registry, api, filtering, satisfying)

\* a Scraper before its run; the export file is absent or left by an earlier run
InitScrape ==
    /\ InvokeIdle /\ DedupeIdle /\ VenuesIdle /\ ScrapeIdle /\ ExtractIdle /\ RestIdle
    /\ fpath = PathIclr
    /\ file \in {NoFile, ScrapedFile}
    /\ prev_file = NoFile
    /\ export_count = 0
    /\ last_export = [papers_list |-> <<>>, fields |-> <<>>, append |-> TRUE]

\* Pipeline runs of one Scraper, one after the other.
SpecScrape == InitScrape /\ [][NextScrape]_vars

NextVenues == GetVenues

InitVenues ==
    InvokeIdle /\ DedupeIdle /\ ExportIdle /\ ScrapeIdle /\ ExtractIdle /\ RestIdle /\ VenuesInit
    /\ fpath = PathIclr

\* Calls of get_venues, one per choice of arguments and registry.
SpecVenues == InitVenues /\ [][NextVenues]_vars

NextExtract == Extract

InitExtract ==
    InvokeIdle /\ DedupeIdle /\ ExportIdle /\ ScrapeIdle /\ VenuesIdle
    /\ ExtractInit /\ RestIdle /\ fpath = PathIclr

\* Calls of an Extractor, one per record and configuration.
SpecExtract == InitExtract /\ [][NextExtract]_vars


NextFilters == SatisfiesAnyFilters

InitFilters ==
    InvokeIdle /\ DedupeIdle /\ ExportIdle /\ ScrapeIdle /\ VenuesIdle
    /\ ExtractIdle /\ ApplyIdle /\ ConcIdle /\ ResolveIdle /\ FetchIdle /\ FiltersInit /\ fpath = PathIclr

\* Calls of satisfies_any_filters, one per record, keyword list and rule list.
SpecFilters == InitFilters /\ [][NextFilters]_vars

NextFetch ==
    \/ GetPapers
    \/ \E outcome \in FetchOutcomes : FetchVenue(outcome)
    \/ SleepBetweenVenues

InitFetch ==
    InvokeIdle /\ DedupeIdle /\ ExportIdle /\ ScrapeIdle /\ VenuesIdle
    /\ ExtractIdle /\ ApplyIdle /\ ConcIdle /\ ResolveIdle /\ FiltersIdle /\ FetchInit /\ fpath = PathIclr

\* One get_papers call, followed from one get_all_notes call or sleep to the
\* next. The loops are finite and nothing in them waits for another process.
SpecFetch ==
    InitFetch /\ [][NextFetch]_vars /\ WF_vars(NextFetch)

NextResolve ==
    \/ \E members \in RemoteRegistries : RegistryChanges(members)
    \/ \E ok \in BOOLEAN : GetVenuesFetch(ok)
    \/ \E ok \in BOOLEAN : ExpandVenue(ok)
    \/ KeepVenue
    \/ GetVenuesReturn

InitResolve ==
    InvokeIdle /\ DedupeIdle /\ ExportIdle /\ ScrapeIdle /\ VenuesIdle
    /\ ExtractIdle /\ ApplyIdle /\ ConcIdle /\ FiltersIdle /\ FetchIdle /\ ResolveInit /\ fpath = PathIclr

\* One get_venues call next to a server whose registry can change.
SpecResolve == InitResolve /\ [][NextResolve]_vars

NextConc ==
    \/ \E w \in Writers : ConcRead(w)
    \/ \E w \in Writers : ConcWrite(w)

InitConc ==
    /\ InvokeIdle /\ DedupeIdle /\ ScrapeIdle /\ VenuesIdle /\ ExtractIdle /\ ApplyIdle
    /\ FiltersIdle /\ FetchIdle /\ ResolveIdle /\ ConcInit
    /\ fpath = PathIclr /\ file \in {NoFile, ScrapedFile} /\ prev_file = NoFile
    /\ export_count = 0
    /\ last_export = [papers_list |-> <<>>, fields |-> <<>>, append |-> TRUE]

\* Two to_csv(papers_list, fpath, append=True) calls of two processes on one
\* path: their steps interleave in any order.
SpecConc == InitConc /\ [][NextConc]_vars

NextApply == ApplyOnPapers

InitApply ==
    InvokeIdle /\ DedupeIdle /\ ExportIdle /\ ScrapeIdle /\ VenuesIdle
    /\ ExtractIdle /\ FiltersIdle /\ FetchIdle /\ ResolveIdle /\ ConcIdle
    /\ ApplyInit /\ fpath = PathIclr

\* Calls of _apply_on_papers, one per keyword list, rule list and venue.
SpecApply == InitApply /\ [][NextApply]_vars
\* ------------------------------------------------------------------------
\* Properties of the invoker
\* ------------------------------------------------------------------------

\* d_i of an invocation: d_1 = initial_delay, d_(i+1) = min(d_i * F, M)
RECURSIVE DelayAt(_)
DelayAt(i) ==
    IF i <= 1 THEN invoke_args.initial_delay
    ELSE Min(DelayAt(i - 1) * invoke_args.backoff_factor, invoke_args.max_delay)

C2_Outcome ==
    /\ calls <= invoke_args.max_retries
    /\ (invoke_pc = "returned" /\ invoke_args.max_retries >= 1) =>
          /\ calls >= 1
          /\ Len(failures) = calls - 1
          /\ returned_by_func \in ReturnValues
          /\ invoke_result = returned_by_func
    /\ (invoke_pc = "returned" /\ invoke_args.max_retries = 0) =>
          /\ calls = 0
          /\ invoke_result = NoneVal
    /\ invoke_pc = "raised" =>
          /\ calls = invoke_args.max_retries
          /\ Len(failures) = calls
          /\ invoke_result = failures[Len(failures)]

C2_Terminates == (invoke_pc = "running") ~> (invoke_pc \in {"returned", "raised"})

C3_SleepsBeforeSuccess ==
    (invoke_pc = "returned" /\ calls >= 1) =>
        /\ Len(failures) < invoke_args.max_retries
        /\ calls = Len(failures) + 1
        /\ invoke_result = returned_by_func
        /\ Len(sleeps) = Len(failures)
        /\ \A i \in 1..Len(sleeps) :
              sleeps[i] = IF is_rate_limit(failures[i])
                          THEN Min(2 * DelayAt(i), invoke_args.max_delay)
                          ELSE DelayAt(i)

\* two "429" failures, then success, with max_retries = 3: two sleeps, both
\* doubled
C3_Witness ==
    /\ invoke_pc = "returned"
    /\ invoke_args.max_retries = 3
    /\ invoke_args.initial_delay = 1
    /\ invoke_args.backoff_factor = 2
    /\ invoke_args.max_delay = 4
    /\ failures = <<Msg429, Msg429>>
    /\ invoke_result = ValSuccess
    /\ calls = 3
    /\ sleeps = <<2, 4>>

\* a message carries one of the three markers, in any letter case
HasRateLimitMarker(msg) ==
    \/ Contains(Lower(msg), <<"4", "2", "9">>)
    \/ Contains(Lower(msg), <<"t", "o", "o", " ", "m", "a", "n", "y", " ", "r", "e", "q", "u", "e", "s", "t", "s">>)
    \/ Contains(Lower(msg), <<"r", "a", "t", "e", " ", "l", "i", "m", "i", "t">>)

\* C4: a failure is waited on with min(delay * 2, M) iff its message holds
\* "429", "too many requests" or "rate limit" in any letter case, and with
\* the plain delay otherwise.
C4_CaseInsensitiveMarkers ==
    \A i \in 1..Len(sleeps) :
        sleeps[i] = IF HasRateLimitMarker(failures[i])
                    THEN Min(2 * DelayAt(i), invoke_args.max_delay)
                    ELSE DelayAt(i)


DelaysWellFormed ==
    /\ invoke_args.initial_delay <= invoke_args.max_delay
    /\ invoke_args.backoff_factor >= 1

\* C29: when initial_delay <= max_delay and backoff_factor >= 1, the current
\* delay never exceeds max_delay and no sleep lasts longer than max_delay.
C29_DelayCapped ==
    (invoke_pc # "idle" /\ DelaysWellFormed) =>
        /\ delay <= invoke_args.max_delay
        /\ \A i \in 1..Len(sleeps) : sleeps[i] <= invoke_args.max_delay

\* a run that slept after a rate-limit failure and after a generic one, with
\* a sleep and the delay at the cap
C29_Witness ==
    /\ DelaysWellFormed
    /\ Len(sleeps) >= 2
    /\ \E i, j \in 1..Len(sleeps) :
           /\ is_rate_limit(failures[i])
           /\ ~is_rate_limit(failures[j])
           /\ sleeps[i] = invoke_args.max_delay
    /\ delay = invoke_args.max_delay
    /\ invoke_args.initial_delay < invoke_args.max_delay
\* ------------------------------------------------------------------------
\* Properties of the deduplicator
\* ------------------------------------------------------------------------

\* the ways out is inp with elements left out: strictly increasing position
\* maps from out into inp
Embeddings(out, inp) ==
    {f \in [1..Len(out) -> 1..Len(inp)] :
        /\ \A i, j \in 1..Len(out) : i < j => f[i] < f[j]
        /\ \A i \in 1..Len(out) : inp[f[i]] = out[i]}

\* position i of inp is the first that carries its identity
FirstOfIdentity(inp, i) ==
    \A j \in 1..(i - 1) : get_forum_id(inp[j]) # get_forum_id(inp[i])

\* C5: dedupe(dedupe(x)) = dedupe(x), and dedupe(x) is a subsequence of x
\* whose records with an identity are, in order, the first occurrences of
\* their identities in x.
C5_IdempotentFirstOccurrence ==
    /\ dedupe_stage = "twice" => dedupe_twice = dedupe_once
    /\ dedupe_stage # "input" =>
          \E f \in Embeddings(dedupe_once, dedupe_input) :
              \A i \in 1..Len(dedupe_once) :
                  get_forum_id(dedupe_once[i]) # NoneVal =>
                      FirstOfIdentity(dedupe_input, f[i])

\* p1, p2 and p1 again (as another record): p1, p2 survive, twice
C5_Witness ==
    /\ dedupe_stage = "twice"
    /\ dedupe_input = <<NoteP1A, NoteP2, NoteP1B>>
    /\ dedupe_once = <<NoteP1A, NoteP2>>
    /\ dedupe_twice = <<NoteP1A, NoteP2>>

\* C6: a record is removed only if an earlier record of the input carries
\* the same identity: the first record of every identity that is present
\* (the attribute or key exists and is not None) is in the output, and every
\* such identity occurs exactly once in it.
C6_RemovedOnlyAsDuplicate ==
    dedupe_stage # "input" =>
        \A i \in 1..Len(dedupe_input) :
            (get_forum_id(dedupe_input[i]) # NoneVal
             /\ FirstOfIdentity(dedupe_input, i)) =>
                /\ \E k \in 1..Len(dedupe_once) : dedupe_once[k] = dedupe_input[i]
                /\ Cardinality({k \in 1..Len(dedupe_once) :
                       get_forum_id(dedupe_once[k])
                           = get_forum_id(dedupe_input[i])}) = 1

\* C7: every record without an identity is kept, once per occurrence and in
\* its place among the survivors.
C7_NoIdentityKept ==
    dedupe_stage # "input" =>
        \E f \in Embeddings(dedupe_once, dedupe_input) :
            \A i \in 1..Len(dedupe_input) :
                get_forum_id(dedupe_input[i]) = NoneVal =>
                    \E k \in 1..Len(dedupe_once) : f[k] = i

\* the same identity-less record twice, around a record with an identity
C7_Witness ==
    /\ dedupe_stage = "once"
    /\ dedupe_input = <<DictNoForum, NoteP1A, DictNoForum>>
    /\ dedupe_once = <<DictNoForum, NoteP1A, DictNoForum>>

\* ------------------------------------------------------------------------
\* Properties of the export
\* ------------------------------------------------------------------------

\* the last step was a call of to_csv with the arguments of the call before it
ExportRepeated ==
    /\ export_count >= 1
    /\ export_count' = export_count + 1
    /\ last_export' = last_export

\* C1: to_csv called twice in a row with the same new rows, the same fields
\* and append on leaves, after the second call, the file of the first call.
C1_ExportIdempotent ==
    [][(ExportRepeated /\ last_export.append) => file' = file]_vars

\* the same, for calls with the default fields only
C1_DefaultFieldsIdempotent ==
    [][(ExportRepeated /\ last_export.append
        /\ last_export.fields = DEFAULT_CSV_FIELDS) => file' = file]_vars

\* all_papers of the last call of to_csv
LastCombined ==
    last_export.papers_list \o read_existing(prev_file, last_export.append)

\* the positions of LastCombined whose join key no earlier position has
FirstOfKey ==
    {j \in 1..Len(LastCombined) :
        \A i \in 1..(j - 1) :
            unique_id(cleaned_paper(LastCombined[i]))
                # unique_id(cleaned_paper(LastCombined[j]))}

\* a written row holds the values of a combined row (the id aside, which
\* to_csv regenerates)
WrittenFrom(row, paper) ==
    \A field \in DOMAIN row :
        field # "id" => row[field] = Get(cleaned_paper(paper), field, <<>>)

\* C9: of the rows of the combined sequence (new rows, then the rows of the
\* file) that share a join key, to_csv writes exactly the first, with its own
\* values: as many rows are written as there are keys, the first row of
\* every key is written, and nothing else is.
C9_FirstOfKeyWins ==
    (export_count >= 1 /\ Len(last_export.papers_list) > 0) =>
        /\ Len(file.rows) = Cardinality(FirstOfKey)
        /\ \A j \in FirstOfKey :
              \E k \in 1..Len(file.rows) :
                  WrittenFrom(file.rows[k], LastCombined[j])
        /\ \A k \in 1..Len(file.rows) :
              \E j \in FirstOfKey : WrittenFrom(file.rows[k], LastCombined[j])

\* the file held a row of key p1 titled "b"; two new rows of key p1 are
\* exported, the first titled "A": one row, titled "A", is written
C9_Witness ==
    /\ export_count = 2
    /\ prev_file.exists
    /\ prev_file.header = DEFAULT_CSV_FIELDS
    /\ Len(prev_file.rows) = 1
    /\ prev_file.rows[1]["title"] = RowP1Poster.title
    /\ prev_file.rows[1]["forum"] = StrP1
    /\ last_export =
          [papers_list |-> <<RowUrlP1, RowP1Poster>>,
           fields |-> DEFAULT_CSV_FIELDS, append |-> TRUE]
    /\ Len(file.rows) = 1
    /\ file.rows[1]["title"] = StrA
    /\ file.rows[1]["forum"] = RowUrlP1.forum

\* <<priority, title.lower()>> of a row as the file holds it
WrittenSortKey(row) ==
    <<presentation_priority(Get(row, "presentation_type", <<>>)),
      Lower(Get(row, "title", <<>>))>>

\* C10: after an export of a non-empty list (whose fields hold the title and
\* the presentation type) the rows of the file are in non-decreasing order of
\* (priority, lower-cased title), the priority being that of the presentation
\* type the file holds for the row.
C10_FileSortedAsWritten ==
    (/\ export_count >= 1
     /\ Len(last_export.papers_list) > 0
     /\ {"title", "presentation_type"} \subseteq Range(last_export.fields)) =>
        \A i, j \in 1..Len(file.rows) :
            i < j => ~key_less(WrittenSortKey(file.rows[j]),
                               WrittenSortKey(file.rows[i]))


\* s ends in suffix
EndsWith(s, suffix) ==
    Len(s) >= Len(suffix)
    /\ SubSeq(s, Len(s) - Len(suffix) + 1, Len(s)) = suffix

\* the slug a file name encodes: the lower-cased part before a final
\* _papers.csv or, failing that, before a final .csv; NoneVal without either
Slug(path) ==
    LET filename == SplitLast(path, <<"/">>)
        papers_csv == <<"_", "p", "a", "p", "e", "r", "s", ".", "c", "s", "v">>
        csv == <<".", "c", "s", "v">>
    IN  IF EndsWith(filename, papers_csv)
        THEN Lower(SubSeq(filename, 1, Len(filename) - Len(papers_csv)))
        ELSE IF EndsWith(filename, csv)
        THEN Lower(SubSeq(filename, 1, Len(filename) - Len(csv)))
        ELSE NoneVal

\* the rows of the file carry the ids slug_1 .. slug_n, in this order
IdsAreSlugIndex ==
    \A i \in 1..Len(file.rows) :
        file.rows[i]["id"] = Slug(fpath) \o <<"_">> \o IntToStr(i)

\* the last call of to_csv had a non-empty list and wrote an id column
ExportedWithIds ==
    /\ export_count >= 1
    /\ Len(last_export.papers_list) > 0
    /\ "id" \in Range(last_export.fields)

C12_EmptyListHeaderOnly ==
    (export_count >= 1 /\ Len(last_export.papers_list) = 0) =>
        /\ file.exists
        /\ file.header = last_export.fields
        /\ file.rows = <<>>

\* the file held a row; an empty list is exported with append on
C12_Witness ==
    /\ export_count = 2
    /\ prev_file.exists
    /\ Len(prev_file.rows) >= 1
    /\ last_export.papers_list = <<>>
    /\ last_export.append
    /\ file.exists
    /\ file.rows = <<>>

\* the text has no newline or carriage return, no two whitespace characters
\* in a row, and no whitespace at either end
CleanText(text) ==
    /\ \A i \in 1..Len(text) : text[i] \notin {"\n", "\r"}
    /\ \A i \in 1..(Len(text) - 1) :
          ~(text[i] \in Whitespace /\ text[i + 1] \in Whitespace)
    /\ text # <<>> => (text[1] \notin Whitespace /\ text[Len(text)] \notin Whitespace)

\* C13: in every row of the written file the title, the abstract and the
\* keywords have no newline or carriage return, no run of two or more
\* whitespace characters and no whitespace at their ends.
C13_TextFieldsClean ==
    (export_count >= 1 /\ Len(last_export.papers_list) > 0) =>
        \A i \in 1..Len(file.rows) :
            \A field \in TEXT_FIELDS_TO_CLEAN \cap DOMAIN file.rows[i] :
                CleanText(file.rows[i][field])

\* the join key to_csv computes for a row it reads back from the file
ReadBackKey(row) == unique_id(cleaned_paper(row))

NoDuplicateReadBackKeys ==
    \A i, j \in 1..Len(file.rows) :
        i # j => ReadBackKey(file.rows[i]) # ReadBackKey(file.rows[j])

\* C25: after an export of a non-empty list, no two rows of the file have
\* the same join key, as to_csv computes it when it reads the rows back.
C25_UniqueJoinKeys ==
    (export_count > 0 /\ last_export.papers_list # <<>>)
        => NoDuplicateReadBackKeys

\* The same for exports that write the identity column.
C25_WithForumColumn ==
    (/\ export_count > 0
     /\ last_export.papers_list # <<>>
     /\ InList("forum", last_export.fields))
        => NoDuplicateReadBackKeys

\* the join keys of the rows of a file, as to_csv computes them on reading
FileKeys(f) == {ReadBackKey(f.rows[i]) : i \in 1..Len(f.rows)}

MergedNonEmpty ==
    export_count > 0 /\ last_export.append /\ last_export.papers_list # <<>>

\* C28: a merge export of a non-empty list keeps every join key the file
\* held before the call.
C28_KeysOnlyGrow == MergedNonEmpty => FileKeys(prev_file) \subseteq FileKeys(file)

\* The same for merge exports that write the columns the file already had.
C28_SameHeader ==
    (MergedNonEmpty /\ prev_file.exists /\ prev_file.header = file.header)
        => FileKeys(prev_file) \subseteq FileKeys(file)
\* ------------------------------------------------------------------------
\* Properties of the pipeline run
\* ------------------------------------------------------------------------

\* C8: the list a run returns holds at most one record per non-empty
\* identity, also when the same paper is fetched under two venues.
C8_ResultUniqueIdentities ==
    \A i, j \in 1..Len(scrape_result) :
        (i < j /\ Truthy(scrape_result[i].forum)) =>
            scrape_result[i].forum # scrape_result[j].forum

\* the last step was a run whose registry fetch failed
RunWithoutRegistry ==
    scrape_count' = scrape_count + 1 /\ ~scrape_registry'.ok

\* C18: when the registry fetch fails, get_venues returns the empty list and
\* the run returns the empty list, fetches the papers of no venue and leaves
\* the export file as it was (absent, or with the rows it held).
C18_NothingToDo ==
    [][RunWithoutRegistry =>
          /\ scrape_venues' = <<>>
          /\ scrape_result' = <<>>
          /\ fetched_venues' = <<>>
          /\ raw_papers' = raw_papers
          /\ file' = file
          /\ export_count' = export_count]_vars

\* a run whose registry fetch failed, beside the file of an earlier run
C18_Witness ==
    /\ scrape_count = 1
    /\ ~scrape_registry.ok
    /\ scrape_venues = <<>>
    /\ scrape_result = <<>>
    /\ fetched_venues = <<>>
    /\ file = ScrapedFile
    /\ Len(file.rows) = 1
    /\ export_count = 0

\* ------------------------------------------------------------------------
\* Properties of the venue resolver
\* ------------------------------------------------------------------------

\* the markers of secondary tracks
SecondaryMarkers ==
    {<<"c", "o", "m", "p", "e", "t", "i", "t", "i", "o", "n">>,
     <<"d", "e", "m", "o">>,
     <<"d", "a", "t", "a", "s", "e", "t", "s", "_", "a", "n", "d", "_", "b", "e", "n", "c", "h", "m", "a", "r", "k", "s">>,
     <<"e", "d", "u", "c", "a", "t", "i", "o", "n">>,
     <<"p", "o", "s", "i", "t", "i", "o", "n", "_", "p", "a", "p", "e", "r">>,
     <<"h", "i", "g", "h", "_", "s", "c", "h", "o", "o", "l">>,
     <<"c", "r", "e", "a", "t", "i", "v", "e", "_", "a", "i">>}

HasSecondaryMarker(venue) ==
    \E marker \in SecondaryMarkers : Contains(Lower(venue), marker)

DenotesMainTrack(venue) == Contains(Lower(venue), <<"t", "r", "a", "c", "k", "/", "m", "a", "i", "n">>)

\* C14: with main-track filtering on, whatever the expansion option is,
\* get_venues returns no identifier that holds a secondary-track marker and
\* none that holds "track" without "track/main".
C14_NoSecondaryTracks ==
    (venues_stage = "returned" /\ venues_args.main_track_only) =>
        \A i \in 1..Len(venues_result) :
            /\ ~HasSecondaryMarker(venues_result[i])
            /\ ~(Contains(Lower(venues_result[i]), <<"t", "r", "a", "c", "k">>)
                 /\ ~DenotesMainTrack(venues_result[i]))

\* what the filter and expansion steps leave, before main-track filtering
PassedSteps ==
    get_venues(venues_args.registry, subgroups_outcome(venues_args),
               venues_args.conferences, venues_args.years,
               venues_args.expand_subgroups, venues_args.exclude_workshops,
               FALSE)

\* C15: with main-track filtering on, every identifier that the filter and
\* expansion steps leave and that holds "track/main" is returned, also when
\* it holds a secondary-track marker.
C15_MainTrackKept ==
    (venues_stage = "returned" /\ venues_args.main_track_only) =>
        \A i \in 1..Len(PassedSteps) :
            DenotesMainTrack(PassedSteps[i]) =>
                InList(PassedSteps[i], venues_result)

\* the identifiers that pass the filter step
Filtered ==
    IF venues_args.registry.ok
    THEN filter_venues(venues_args.registry.members, venues_args.conferences,
                       venues_args.years, venues_args.exclude_workshops)
    ELSE <<>>

\* C16: with expansion on and main-track filtering off, every identifier
\* that passed the filter step is returned, and every other returned
\* identifier starts with the parent path of an umbrella that passed the
\* filter step, holds a requested year and holds no role-group marker.
C16_ExpansionOnlyAdds ==
    (/\ venues_stage = "returned"
     /\ venues_args.expand_subgroups
     /\ ~venues_args.main_track_only) =>
        /\ \A i \in 1..Len(Filtered) : InList(Filtered[i], venues_result)
        /\ \A i \in 1..Len(venues_result) :
              ~InList(venues_result[i], Filtered) =>
                  /\ \E u \in 1..Len(Filtered) :
                        /\ should_expand_venue(Filtered[u])
                        /\ StartsWith(venues_result[i],
                                      base_path(Filtered[u]) \o <<"/">>)
                  /\ \E y \in 1..Len(venues_args.years) :
                        Contains(venues_result[i], venues_args.years[y])
                  /\ \A p \in 1..Len(exclude_patterns) :
                        ~Contains(venues_result[i], exclude_patterns[p])

\* an umbrella with a sub-venue and a role group: the sub-venue is added
C16_Witness ==
    /\ venues_stage = "returned"
    /\ venues_args.expand_subgroups
    /\ ~venues_args.main_track_only
    /\ venues_args.subgroups_ok
    /\ venues_args.registry.ok
    /\ venues_args.registry.members = <<VenueJoint, VenueAuthors, VenuePosters>>
    /\ venues_args.years = <<Str2024>>
    /\ venues_result = <<VenueJoint, VenuePosters>>

\* the identifier holds a requested year, holds a requested conference name
\* in some letter case and, with workshops excluded, does not hold "workshop"
\* in any letter case
PassesFilter(venue) ==
    /\ \E y \in 1..Len(venues_args.years) :
          Contains(venue, venues_args.years[y])
    /\ \E c \in 1..Len(venues_args.conferences) :
          Contains(Lower(venue), Lower(venues_args.conferences[c]))
    /\ venues_args.exclude_workshops => ~Contains(Lower(venue), <<"w", "o", "r", "k", "s", "h", "o", "p">>)

\* C17: with expansion and main-track filtering off, get_venues returns the
\* registry identifiers that pass the filter, in registry order; and
\* filter_by_year returns the identifier iff a requested year is a substring
\* of it, so nothing for an empty year list.
C17_FilterExact ==
    (/\ venues_stage = "returned"
     /\ venues_args.registry.ok
     /\ ~venues_args.expand_subgroups
     /\ ~venues_args.main_track_only) =>
        /\ venues_result =
              SelectSeq(venues_args.registry.members,
                        LAMBDA venue : PassesFilter(venue))
        /\ \A i \in 1..Len(venues_args.registry.members) :
              LET venue == venues_args.registry.members[i]
              IN  /\ filter_by_year(venue, venues_args.years) \in {venue, NoneVal}
                  /\ filter_by_year(venue, venues_args.years) = venue
                        <=> \E y \in 1..Len(venues_args.years) :
                               Contains(venue, venues_args.years[y])
                  /\ filter_by_year(venue, <<>>) = NoneVal

\* a workshop, the conference and last year's conference are in the
\* registry; 2024 and iclr are requested, workshops excluded
C17_Witness ==
    /\ venues_stage = "returned"
    /\ venues_args.registry.ok
    /\ venues_args.registry.members = <<VenueWorkshop, VenueConference, VenueOld>>
    /\ venues_args.years = <<Str2024>>
    /\ venues_args.exclude_workshops
    /\ ~venues_args.expand_subgroups
    /\ ~venues_args.main_track_only
    /\ venues_result = <<VenueConference>>

\* ------------------------------------------------------------------------
\* Properties of the extractor
\* ------------------------------------------------------------------------

IsEmptyStr(value) == value.type = "str" /\ value.str = <<>>

\* what the record holds under name: Absent when the record is None, has no
\* such key or attribute, or the attribute cannot be read
Held(record, name) ==
    IF record.type = "dict"
    THEN IF name \in DOMAIN record.items THEN record.items[name] ELSE Absent
    ELSE IF record.type = "object"
    THEN IF name \in DOMAIN record.attrs /\ record.attrs[name] # PyRaises
         THEN record.attrs[name] ELSE Absent
    ELSE Absent

\* what the container name of the extracted record holds under field: Absent
\* when the container is missing, None or unreadable, or lacks the field
HeldLeaf(name, field) ==
    IF Held(extract_paper, name) \in {Absent, PyNone} THEN Absent
    ELSE Held(Held(extract_paper, name), field)

\* the value extract returned for the sub-field field of the container name
ResultLeaf(name, field) ==
    IF extract_config.include_subfield
    THEN extract_result[name].items[field]
    ELSE extract_result[field]

\* the result has an entry for the sub-field field of the container name
HasLeaf(name, field) ==
    IF extract_config.include_subfield
    THEN /\ name \in DOMAIN extract_result
         /\ extract_result[name].type = "dict"
         /\ field \in DOMAIN extract_result[name].items
    ELSE field \in DOMAIN extract_result

\* C19: the result of extract has an entry for every requested field and
\* every requested sub-field (under the container's key with include_subfield,
\* at top level without), and a field that the record does not hold, or
\* whose record or container is None, missing or unreadable, is the empty
\* string.
C19_MissingIsEmptyString ==
    extract_stage = "returned" =>
        /\ \A i \in 1..Len(extract_config.fields) :
              LET field == extract_config.fields[i]
              IN  /\ field \in DOMAIN extract_result
                  /\ Held(extract_paper, field) = Absent
                        => IsEmptyStr(extract_result[field])
        /\ \A s \in 1..Len(extract_config.subfields) :
              \A i \in 1..Len(extract_config.subfields[s].fields) :
                  LET name == extract_config.subfields[s].name
                      field == extract_config.subfields[s].fields[i]
                  IN  /\ HasLeaf(name, field)
                      /\ HeldLeaf(name, field) = Absent
                            => IsEmptyStr(ResultLeaf(name, field))

\* the value is a dict that has the key 'value'
HasValueKey(value) == value.type = "dict" /\ "value" \in DOMAIN value.items

\* the value is the dict {'value': V}, with no other key
IsOneKeyWrapper(value) == value.type = "dict" /\ DOMAIN value.items = {"value"}

C21_TopLevelUnwrapped ==
    extract_stage = "returned" =>
        \A i \in 1..Len(extract_config.fields) :
            LET field == extract_config.fields[i]
                held == Held(extract_paper, field)
            IN  (held # Absent /\ IsOneKeyWrapper(held)) =>
                    extract_result[field] = held.items["value"]


\* ---------------------------------------------------------------------
\* Claims about the filter engine
\* ---------------------------------------------------------------------

\* The threshold a rule asks for, positionally or by name.
RuleThreshold(rule) ==
    IF Len(rule.args) > 0 THEN rule.args[1]
    ELSE kwarg(rule.kwargs, "threshold", DefaultThreshold)

\* What the rule's predicate says about (record, keywords).
RuleVerdict(rule, paper, keywords) ==
    CASE rule.func = "title_filter" ->
             title_filter(paper, keywords, RuleThreshold(rule))
      [] rule.func = "abstract_filter" ->
             abstract_filter(paper, keywords, RuleThreshold(rule))
      [] rule.func = "always_match_filter" ->
             always_match_filter(paper, keywords)

MatchingRules ==
    {i \in 1..Len(filter_args.filters) :
        RuleVerdict(filter_args.filters[i], filter_args.paper,
                    filter_args.keywords)[2]}

FirstMatchOrRejected ==
    /\ filter_stage = "returned"
    /\ IF MatchingRules = {}
       THEN /\ filter_result = <<NoneVal, NoneVal, FALSE>>
            /\ filter_calls = [i \in 1..Len(filter_args.filters) |-> i]
       ELSE LET first == CHOOSE i \in MatchingRules :
                             \A j \in MatchingRules : i <= j
                rule == filter_args.filters[first]
            IN  /\ filter_result =
                       <<RuleVerdict(rule, filter_args.paper,
                                     filter_args.keywords)[1], rule.func, TRUE>>
                /\ filter_calls = [i \in 1..first |-> i]

\* C22: satisfies_any_filters calls the rules in list order up to the first
\* one that matches and returns its keyword and name; with no matching rule,
\* or no rule at all, it returns the rejection (None, None, False).
C22_FirstMatchShortCircuit ==
    filter_stage \notin {"idle", "called"} => FirstMatchOrRejected

\* The same for rule lists whose rules carry no positional arguments.
C22_WithoutPositionalArgs ==
    (/\ filter_stage \notin {"idle", "called"}
     /\ \A i \in 1..Len(filter_args.filters) :
            filter_args.filters[i].args = <<>>)
        => FirstMatchOrRejected

\* ---------------------------------------------------------------------
\* Claims about the fetch loops
\* ---------------------------------------------------------------------

IsFetch(e) == e[1] = "get_all_notes"
IsSleep(e) == e[1] = "sleep"

\* C23: in one get_papers run, a sleep lies between every two consecutive
\* venue fetches.
C23_SleepBetweenFetches ==
    \A i \in 1..(Len(fetch_events) - 1) :
        ~(IsFetch(fetch_events[i]) /\ IsFetch(fetch_events[i + 1]))

\* The venues of one group are fetched with a sleep between them, and none
\* after the last.
C23_SleepWithinGroup ==
    /\ \A i \in 1..(Len(fetch_events) - 1) :
           (IsFetch(fetch_events[i]) /\ IsFetch(fetch_events[i + 1])) =>
               \E g \in 1..Len(fetch_args) :
                   \E h \in (g + 1)..Len(fetch_args) :
                       /\ fetch_events[i][2] \in Range(fetch_args[g].venues)
                       /\ fetch_events[i + 1][2] \in Range(fetch_args[h].venues)
    /\ fetch_pc.stage = "returned" =>
           (fetch_events = <<>> \/ IsFetch(fetch_events[Len(fetch_events)]))

\* the step-wise run ends in what get_papers computes in one go
FetchedEverything ==
    fetch_pc.stage = "returned" =>
        \E api \in [UNION {Range(fetch_args[g].venues) : g \in 1..Len(fetch_args)}
                        -> FetchOutcomes] :
            fetch_all_papers = get_papers(fetch_args, api)

\* the items of the venues fetched so far, of the finished groups and of the
\* running one
FetchedItems ==
    UNION {Range(fetch_all_papers[g].venues) : g \in 1..Len(fetch_all_papers)}
        \cup Range(fetch_papers)

\* C27: a venue whose fetch fails gets the empty list and the run goes on:
\* no failure leaves get_papers, every venue fetched so far has an entry,
\* and the result of each group has an entry for each of its venues.
C27_FailedVenueIsEmpty ==
    /\ fetch_pc.stage # "raised"
    /\ \A i \in 1..Len(fetch_events) :
           IsFetch(fetch_events[i]) =>
               \E item \in FetchedItems :
                   /\ item.venue = fetch_events[i][2]
                   /\ ~fetch_events[i][3] => item.papers = <<>>
    /\ fetch_pc.stage = "returned" =>
           /\ Len(fetch_all_papers) = Len(fetch_args)
           /\ \A g \in 1..Len(fetch_args) :
                  /\ Len(fetch_all_papers[g].venues) = Len(fetch_args[g].venues)
                  /\ \A i \in 1..Len(fetch_args[g].venues) :
                         fetch_all_papers[g].venues[i].venue
                             = fetch_args[g].venues[i]

\* a group of two venues whose first fetch failed has been fetched to its end
C27_Witness ==
    /\ fetch_pc.stage = "returned"
    /\ \E g \in 1..Len(fetch_args) :
           /\ Len(fetch_args[g].venues) = 2
           /\ \E i \in 1..Len(fetch_events) :
                  /\ IsFetch(fetch_events[i])
                  /\ fetch_events[i][2] = fetch_args[g].venues[1]
                  /\ ~fetch_events[i][3]
           /\ fetch_all_papers[g].venues[1].papers = <<>>
           /\ fetch_all_papers[g].venues[2].papers # <<>>

\* every get_papers run returns
C27_RunReturns == <>(fetch_pc.stage = "returned")

\* ---------------------------------------------------------------------
\* Claims about the registry fetches of get_venues
\* ---------------------------------------------------------------------

\* C24: a get_venues call fetches the registry exactly once, and every
\* identifier it returns is a member of that snapshot.
C24_SingleSnapshot ==
    resolve_pc.stage = "returned" =>
        /\ Len(resolve_fetches) = 1
        /\ \A i \in 1..Len(resolve_result) :
               InList(resolve_result[i], resolve_fetches[1].members)

\* The identifiers returned are members of the first snapshot.
C24_ResultFromFirstFetch ==
    resolve_pc.stage = "returned" =>
        \A i \in 1..Len(resolve_result) :
            InList(resolve_result[i], resolve_fetches[1].members)

\* With an unchanged registry and no failing fetch, the call returns what
\* get_venues computes from the one registry.
ResolveAgrees ==
    (/\ resolve_pc.stage = "returned"
     /\ resolve_remote.changes = 0
     /\ \A i \in 1..Len(resolve_fetches) : resolve_fetches[i].ok)
        => resolve_result =
               get_venues(resolve_fetches[1], resolve_fetches[1],
                          resolve_args.conferences, resolve_args.years,
                          resolve_args.expand_subgroups,
                          resolve_args.exclude_workshops,
                          resolve_args.main_track_only)

\* a venue that is not an umbrella is listed as it is
KeptVenueListed ==
    \A i \in 1..Len(resolve_locals.filtered_venues) :
        (resolve_pc.stage = "expand" /\ i < resolve_pc.idx) =>
            InList(resolve_locals.filtered_venues[i],
                   resolve_locals.expanded_venues)

\* ---------------------------------------------------------------------
\* Claims about exports that are not serialized
\* ---------------------------------------------------------------------

\* the join keys a call supplies
SuppliedKeys(w) ==
    {unique_id(cleaned_paper(conc_args[w][i])) : i \in 1..Len(conc_args[w])}

BothWritten == \A w \in Writers : conc_pc[w] = "written"

\* both calls read the file before either wrote it
ReadsBeforeWrites ==
    /\ Len(conc_events) >= 2
    /\ conc_events[1][1] = "read"
    /\ conc_events[2][1] = "read"

LastWriter == conc_events[Len(conc_events)][2]

\* C26: when both calls read the file before either writes, the file left by
\* the two writes lacks every join key that only the first writer supplied.
C26_LostUpdate ==
    (BothWritten /\ ReadsBeforeWrites) =>
        \A w \in Writers \ {LastWriter} :
            \A k \in SuppliedKeys(w) :
                (k \notin SuppliedKeys(LastWriter)
                 /\ k \notin FileKeys(conc_read[LastWriter]))
                    => k \notin FileKeys(file)

\* the interleaving has happened and a supplied key is missing from the file
C26_Witness ==
    /\ BothWritten
    /\ ReadsBeforeWrites
    /\ \E w \in Writers : \E k \in SuppliedKeys(w) : k \notin FileKeys(file)

\* serialized, the two calls lose no key
C26_SerializedKeepsAll ==
    (BothWritten /\ ~ReadsBeforeWrites) =>
        \A w \in Writers : SuppliedKeys(w) \subseteq FileKeys(file)

\* ---------------------------------------------------------------------
\* Claims about the filter gate of the pipeline
\* ---------------------------------------------------------------------

ApplyPositions == 1..Len(apply_args.venue_papers)

BothListsSet == apply_args.keywords # <<>> /\ apply_args.filters # <<>>

Exported(i) == \E k \in 1..Len(apply_result) : apply_result[k].source = i

\* some rule of the list matches the paper at position i
SomeRuleMatches(i) ==
    \E k \in 1..Len(apply_args.filters) :
        RuleVerdict(apply_args.filters[k], apply_args.venue_papers[i],
                    apply_args.keywords)[2]

GateAsClaimed ==
    /\ apply_calls # {} => BothListsSet
    /\ \A i \in ApplyPositions :
           /\ Exported(i) <=> (~BothListsSet \/ SomeRuleMatches(i))
           /\ Exported(i) <=> i \in apply_mutated
           /\ BothListsSet => i \in apply_calls

\* C30: a paper is given to the filters only when keywords and filters are
\* both non-empty, and is then normalized and exported iff some rule matches;
\* with either list empty every paper is normalized and exported; a rejected
\* paper is neither written to nor exported.
C30_FilterGate == apply_stage \notin {"idle", "called"} => GateAsClaimed

\* The same for the calls that return.
C30_WhenReturned == apply_stage = "returned" => GateAsClaimed

\* A paper that no rule matches is never written to, whatever the call ends in.
C30_RejectedUntouched ==
    apply_stage \notin {"idle", "called"} =>
        \A i \in ApplyPositions :
            (BothListsSet /\ ~SomeRuleMatches(i)) =>
                (i \notin apply_mutated /\ ~Exported(i))
====
